---- MODULE Spec2Model ----
(***************************************************************************)
(* Claude-style hook engine: circuit breaker store, command parser,        *)
(* command / prompt hook executors, dispatcher, registry and the           *)
(* PreToolUse orchestrator, modelled as a state machine.                   *)
(*                                                                         *)
(* Text is modelled as sequences of one-character strings wherever the     *)
(* code looks inside it (commands, matchers, tool names, prompts) and as   *)
(* opaque strings drawn from small tables where the code only trims or     *)
(* parses it (stdout, stderr).                                             *)
(***************************************************************************)
EXTENDS Integers, Sequences, FiniteSets, TLC

VARIABLES
    circuitBreakers,  \* the Map<string, CircuitBreakerState> of the executor
    settings,         \* what getClaudeHooksConfig() returns (read-only)
    active,           \* the callers (event-loop tasks) that exist in this run
    orch,             \* per caller: the runPreToolUseHooks activation
    inv,              \* per caller: the runClaudeHook invocation in flight
    streak,           \* ghost: consecutive recorded failures per identity (capped)
    tripped,          \* ghost: identity has seen a full failure run since its reset
    api               \* ghost: the last direct call of the breaker API and its result

vars == <<circuitBreakers, settings, active, orch, inv, streak, tripped, api>>

(***************************************************************************)
(* Bounds and program constants                                            *)
(***************************************************************************)
MaxFailures == 4               \* direct recordFailure calls stop at this count
MaxCmdLen == 3                 \* longest command string handed to parseCommand
MaxNameLen == 2                \* longest pattern and identifier handed to matchesPattern
MaxRules == 2                  \* longest rule list of a configuration handed to matchHooks
MAX_CONSECUTIVE_FAILURES == 3
DefaultTimeoutCommand == 600
DefaultTimeoutPrompt == 30
KillGraceMs == 5000
PromptIdPrefixLen == 50

Procs == {"t1", "t2"}

Undefined == [t |-> "undefined"]
Null == [t |-> "null"]

Min(a, b) == IF a < b THEN a ELSE b

(***************************************************************************)
(* Circuit breaker store                                                   *)
(***************************************************************************)
getCircuitBreaker(cb, handlerId) ==
    IF handlerId \in DOMAIN cb
    THEN cb
    ELSE [x \in (DOMAIN cb) \cup {handlerId} |->
            IF x = handlerId THEN [failures |-> 0, disabled |-> FALSE] ELSE cb[x]]

recordSuccess_NoReset(cb, handlerId) == getCircuitBreaker(cb, handlerId)

recordSuccess_ClearsDisabled(cb, handlerId) ==
    [getCircuitBreaker(cb, handlerId) EXCEPT ![handlerId] = [failures |-> 0, disabled |-> FALSE]]

recordSuccess(cb, handlerId) ==
    [getCircuitBreaker(cb, handlerId) EXCEPT ![handlerId].failures = 0]

recordFailure_CountsTwice(cb, handlerId) ==
    LET c == getCircuitBreaker(cb, handlerId)
        n == c[handlerId].failures + 2
    IN  IF n >= MAX_CONSECUTIVE_FAILURES
        THEN [cb |-> [c EXCEPT ![handlerId] = [failures |-> n, disabled |-> TRUE]], ret |-> TRUE]
        ELSE [cb |-> [c EXCEPT ![handlerId].failures = n], ret |-> FALSE]

recordFailure_OffByOne(cb, handlerId) ==
    LET c == getCircuitBreaker(cb, handlerId)
        n == c[handlerId].failures + 1
    IN  IF n > MAX_CONSECUTIVE_FAILURES
        THEN [cb |-> [c EXCEPT ![handlerId] = [failures |-> n, disabled |-> TRUE]], ret |-> TRUE]
        ELSE [cb |-> [c EXCEPT ![handlerId].failures = n], ret |-> FALSE]

\* returns the store after the call and the call's return value
recordFailure(cb, handlerId) ==
    LET c == getCircuitBreaker(cb, handlerId)
        n == c[handlerId].failures + 1
    IN  IF n >= MAX_CONSECUTIVE_FAILURES
        THEN [cb |-> [c EXCEPT ![handlerId] = [failures |-> n, disabled |-> TRUE]], ret |-> TRUE]
        ELSE [cb |-> [c EXCEPT ![handlerId].failures = n], ret |-> FALSE]

isDisabled(cb, handlerId) ==
    IF handlerId \in DOMAIN cb THEN cb[handlerId].disabled ELSE FALSE

\* the failure count the store holds for an identity (0 when it has no entry)
failuresOf(cb, id) == IF id \in DOMAIN cb THEN cb[id].failures ELSE 0

resetCircuitBreaker(cb, handlerId) ==
    [x \in (DOMAIN cb) \ {handlerId} |-> cb[x]]

resetAllCircuitBreakers(cb) ==
    [x \in {} |-> [failures |-> 0, disabled |-> FALSE]]

(***************************************************************************)
(* Text helpers: String.prototype.trim and JSON.parse over the texts a     *)
(* hook process can print                                                   *)
(***************************************************************************)
OutDeny == "{\"decision\":\"deny\",\"reason\":\"no shell\"}"
OutAllowA == "{\"decision\":\"allow\",\"updatedInput\":{\"a\":\"1\"}}"
OutAskAB == "{\"decision\":\"ask\",\"updatedInput\":{\"a\":\"2\",\"b\":\"2\"}}"
OutEmptyUpd == "{\"updatedInput\":{}}"

Stdouts == {"", "  ", "null", "7", "oops", OutDeny, OutAllowA, OutAskAB, OutEmptyUpd}
Stderrs == {"", " no shell ", "   "}

trim(s) ==
    CASE s = "  " -> ""
      [] s = "   " -> ""
      [] s = " no shell " -> "no shell"
      [] OTHER -> s

SyntaxError == [t |-> "SyntaxError"]
JStr(s) == [t |-> "string", s |-> s]
JObject(fields) == [t |-> "object", f |-> fields]
EmptyObject == JObject([k \in {} |-> Undefined])

\* JSON.parse: the parsed value, or SyntaxError when the text is not JSON
JSONparse(s) ==
    CASE s = "null" -> Null
      [] s = "7" -> [t |-> "number"]
      [] s = OutDeny -> JObject([decision |-> JStr("deny"), reason |-> JStr("no shell")])
      [] s = OutAllowA -> JObject([decision |-> JStr("allow"),
                                   updatedInput |-> JObject([a |-> JStr("1")])])
      [] s = OutAskAB -> JObject([decision |-> JStr("ask"),
                                  updatedInput |-> JObject([a |-> JStr("2"), b |-> JStr("2")])])
      [] s = OutEmptyUpd -> JObject([updatedInput |-> EmptyObject])
      [] OTHER -> SyntaxError

\* property read `value.name` on a non-null value (undefined when absent)
Prop(value, name) ==
    IF value.t = "object" /\ name \in DOMAIN value.f THEN value.f[name] ELSE Undefined

\* JavaScript truthiness of the values that occur here
Truthy(value) == value.t \notin {"undefined", "null"}

Spread_EarlierWins(a, b) ==
    LET fa == IF a.t = "object" THEN a.f ELSE [k \in {} |-> Undefined]
    IN  JObject([k \in (DOMAIN fa) \cup (DOMAIN b.f) |->
                    IF k \in DOMAIN fa THEN fa[k] ELSE b.f[k]])

\* { ...a, ...b } for a an object or undefined and b an object
Spread(a, b) ==
    LET fa == IF a.t = "object" THEN a.f ELSE [k \in {} |-> Undefined]
    IN  JObject([k \in (DOMAIN fa) \cup (DOMAIN b.f) |->
                    IF k \in DOMAIN b.f THEN b.f[k] ELSE fa[k]])

(***************************************************************************)
(* Command parsing                                                         *)
(***************************************************************************)
StrCmd(chars) == [kind |-> "string", text |-> chars]
ArrCmd(items) == [kind |-> "array", items |-> items]

OperatorChars == {";", "|", ">", "<", "&", "(", ")"}

Lit(chars) == [lit |-> TRUE, s |-> chars]
Op(c) == [lit |-> FALSE, s |-> <<c>>]

QuoteChars == {"'", "\""}

\* the grave accent (U+0060), written by name
Backtick == "GRAVE"

NoWord == [on |-> FALSE, s |-> <<>>]

\* position of the first occurrence of c in chars, 0 when there is none
RECURSIVE IndexOf(_, _)
IndexOf(chars, c) ==
    IF chars = <<>> THEN 0
    ELSE IF Head(chars) = c THEN 1
         ELSE LET k == IndexOf(Tail(chars), c)
              IN  IF k = 0 THEN 0 ELSE k + 1

\* shell-quote's parse over whitespace, control operators, quotes and
\* ordinary characters: whitespace separates words; an unquoted control
\* operator character becomes an operator object; a quoted stretch is taken
\* literally into the current word (a quote with no closing partner matches
\* nothing and ends the word); every other character, the backtick among
\* them, is an ordinary character of a word.  A run such as `||` gives two
\* operator objects here and one in the library, which parseCommand cannot
\* tell apart.
RECURSIVE Lex(_, _, _)
Lex(chars, word, acc) ==
    LET flush == IF word.on THEN Append(acc, Lit(word.s)) ELSE acc
    IN  IF chars = <<>> THEN flush
        ELSE LET c == Head(chars)
                 rest == Tail(chars)
                 close == IndexOf(rest, c)
             IN  IF c = " " THEN Lex(rest, NoWord, flush)
                 ELSE IF c \in OperatorChars
                      THEN Lex(rest, NoWord, Append(flush, Op(c)))
                 ELSE IF c \in QuoteChars
                      THEN IF close = 0
                           THEN Lex(rest, NoWord, flush)
                           ELSE Lex(SubSeq(rest, close + 1, Len(rest)),
                                    [on |-> TRUE, s |-> word.s \o SubSeq(rest, 1, close - 1)],
                                    acc)
                 ELSE Lex(rest, [on |-> TRUE, s |-> Append(word.s, c)], acc)

parseShellQuote(chars) == Lex(chars, NoWord, <<>>)

IsString(tok) == tok.lit

parseCommand(command) ==
    IF command.kind = "array"
    THEN IF Len(command.items) = 0
         THEN [ok |-> FALSE, error |-> "Command array is empty"]
         ELSE [ok |-> TRUE, argv |-> command.items]
    ELSE LET tokens == parseShellQuote(command.text)
             argv == SelectSeq(tokens, IsString)
         IN  IF Len(argv) # Len(tokens)
             THEN [ok |-> FALSE, error |-> "Command contains unsupported operators"]
             ELSE IF Len(argv) = 0
                  THEN [ok |-> FALSE, error |-> "Command string is empty"]
                  ELSE [ok |-> TRUE, argv |-> [i \in 1..Len(argv) |-> argv[i].s]]

(***************************************************************************)
(* Handler identity                                                        *)
(***************************************************************************)
RECURSIVE Join(_, _)
Join(items, sep) ==
    IF items = <<>> THEN <<>>
    ELSE IF Len(items) = 1 THEN items[1]
         ELSE items[1] \o sep \o Join(Tail(items), sep)

getHandlerId_WithTimeout(handler) ==
    CASE handler.type = "command" ->
            <<"command", IF handler.command.kind = "array"
                         THEN Join(handler.command.items, <<" ">>)
                         ELSE handler.command.text, handler.timeout>>
      [] handler.type = "prompt" ->
            <<"prompt", SubSeq(handler.prompt, 1, Min(PromptIdPrefixLen, Len(handler.prompt)))>>
      [] handler.type = "agent" -> <<"agent", handler.agent>>
      [] OTHER -> <<"unknown", <<handler.type>>>>

getHandlerId(handler) ==
    CASE handler.type = "command" ->
            <<"command", IF handler.command.kind = "array"
                         THEN Join(handler.command.items, <<" ">>)
                         ELSE handler.command.text>>
      [] handler.type = "prompt" ->
            <<"prompt", SubSeq(handler.prompt, 1, Min(PromptIdPrefixLen, Len(handler.prompt)))>>
      [] handler.type = "agent" -> <<"agent", handler.agent>>
      [] OTHER -> <<"unknown", <<handler.type>>>>

(***************************************************************************)
(* Registry                                                                *)
(***************************************************************************)
\* picomatch(pattern)(identifier) for patterns of literal characters, `*` and
\* `?`: `*` matches any run of characters and `?` one character, neither
\* matches a dot that begins the identifier, and the empty identifier matches
\* no pattern.  atStart tells whether the identifier's first character is
\* still to be matched.
RECURSIVE Glob(_, _, _)
Glob(pattern, identifier, atStart) ==
    IF pattern = <<>> THEN identifier = <<>>
    ELSE LET leadingDot == atStart /\ identifier # <<>> /\ Head(identifier) = "."
         IN  IF Head(pattern) = "*"
             THEN /\ ~leadingDot
                  /\ \/ Glob(Tail(pattern), identifier, FALSE)
                     \/ identifier # <<>> /\ Glob(pattern, Tail(identifier), FALSE)
             ELSE /\ identifier # <<>>
                  /\ IF Head(pattern) = "?" THEN ~leadingDot
                                            ELSE Head(pattern) = Head(identifier)
                  /\ Glob(Tail(pattern), Tail(identifier), FALSE)

picomatch(pattern, identifier) == identifier # <<>> /\ Glob(pattern, identifier, TRUE)

matchesPatternSteps_GlobOnly(pattern, identifier) ==
    [ret |-> picomatch(pattern, identifier), consulted |-> TRUE]

\* matchesPattern: its return value, and whether it got as far as picomatch
matchesPatternSteps(pattern, identifier) ==
    IF pattern = identifier \/ pattern = <<"*">>
    THEN [ret |-> TRUE, consulted |-> FALSE]
    ELSE [ret |-> picomatch(pattern, identifier), consulted |-> TRUE]

matchesPattern(pattern, identifier) == matchesPatternSteps(pattern, identifier).ret

RECURSIVE CollectHooks_LaterRuleFirst(_, _)
CollectHooks_LaterRuleFirst(rules, identifier) ==
    IF rules = <<>> THEN <<>>
    ELSE CollectHooks_LaterRuleFirst(Tail(rules), identifier)
         \o (IF matchesPattern(Head(rules).matcher, identifier) THEN Head(rules).hooks ELSE <<>>)

RECURSIVE CollectHooks(_, _)
CollectHooks(rules, identifier) ==
    IF rules = <<>> THEN <<>>
    ELSE (IF matchesPattern(Head(rules).matcher, identifier) THEN Head(rules).hooks ELSE <<>>)
         \o CollectHooks(Tail(rules), identifier)

matchHooks_AnyEvent(config, event, identifier) ==
    IF config = Undefined THEN <<>>
    ELSE IF event \notin DOMAIN config.events
         THEN CollectHooks(config.events[CHOOSE e \in DOMAIN config.events : TRUE], identifier)
    ELSE IF Len(config.events[event]) = 0 THEN <<>>
    ELSE CollectHooks(config.events[event], identifier)

matchHooks(config, event, identifier) ==
    IF config = Undefined THEN <<>>
    ELSE IF event \notin DOMAIN config.events THEN <<>>
    ELSE IF Len(config.events[event]) = 0 THEN <<>>
    ELSE CollectHooks(config.events[event], identifier)

(***************************************************************************)
(* Handlers, configurations and tool names of the runs explored            *)
(***************************************************************************)
NoTimeout == <<>>

HCheck == [type |-> "command", command |-> StrCmd(<<"c", "k">>), timeout |-> NoTimeout]
HLint == [type |-> "command", command |-> StrCmd(<<"l", " ", "x">>), timeout |-> <<5>>]
HLintArr == [type |-> "command", command |-> ArrCmd(<< <<"l">>, <<"x">> >>), timeout |-> NoTimeout]
HPipe == [type |-> "command", command |-> StrCmd(<<"c", "|", "k">>), timeout |-> NoTimeout]
\* the same text as HPipe given as a one-element argument list: used as is
HPipeArr == [type |-> "command", command |-> ArrCmd(<< <<"c", "|", "k">> >>), timeout |-> NoTimeout]
HPrompt == [type |-> "prompt", prompt |-> <<"o", "k", "?">>, model |-> <<>>, timeout |-> NoTimeout]
\* two prompts that agree on their first 50 characters and differ after them
LongPrefix == [i \in 1..PromptIdPrefixLen |-> "p"]
HPromptA == [type |-> "prompt", prompt |-> LongPrefix \o <<"a">>, model |-> <<>>,
             timeout |-> NoTimeout]
HPromptB == [type |-> "prompt", prompt |-> LongPrefix \o <<"b">>, model |-> <<"m">>,
             timeout |-> <<5>>]
HAgent == [type |-> "agent", agent |-> <<"r", "v">>]
\* a command whose executable name is the empty string
HEmptyArg == [type |-> "command", command |-> ArrCmd(<< <<>> >>), timeout |-> NoTimeout]
\* a descriptor whose type tag is none of command, prompt, agent
HUnknown == [type |-> "mcp"]

Bash == <<"B", "a", "s", "h">>
Read == <<"R", "e", "a", "d">>
Tools == {Bash, Read}

Rule(matcher, hooks) == [matcher |-> matcher, hooks |-> hooks]
Config(events) == [t |-> "config", events |-> events]

ConfigTwoRules ==
    Config([PreToolUse |-> << Rule(Bash, <<HCheck, HPrompt>>), Rule(<<"*">>, <<HLint>>) >>])
ConfigOneRule ==
    Config([PreToolUse |-> << Rule(<<"B", "*">>, <<HCheck>>) >>,
            PostToolUse |-> << Rule(<<"*">>, <<HLint>>) >>])
ConfigOtherEvent ==
    Config([PostToolUse |-> << Rule(<<"*">>, <<HCheck>>) >>])

ConfigEmptyList ==
    Config([PreToolUse |-> <<>>])

\* an agent handler, then the same command text once as an argv array and
\* once as a string the parser rejects
ConfigAgentPipes ==
    Config([PreToolUse |-> << Rule(Read, <<HAgent, HPipeArr, HPipe>>) >>])

Settings ==
    {Undefined, ConfigTwoRules, ConfigOneRule, ConfigOtherEvent, ConfigEmptyList,
     ConfigAgentPipes}

DirectHandlers ==
    {HLint, HLintArr, HPipe, HPipeArr, HEmptyArg, HPromptA, HPromptB, HAgent, HUnknown}
BreakerIds == {getHandlerId(HCheck), getHandlerId(HPrompt)}
AllHandlers ==
    {HCheck, HLint, HLintArr, HPipe, HPipeArr, HEmptyArg, HPrompt, HPromptA, HPromptB, HAgent,
     HUnknown}
HandlerIds == {getHandlerId(h) : h \in AllHandlers}

(***************************************************************************)
(* Outcomes of one hook invocation                                         *)
(***************************************************************************)
Success(output) == [v |-> "success", output |-> output]
Blocked(reason) == [v |-> "blocked", reason |-> JStr(reason)]
Error(message) == [v |-> "error", message |-> message]

Msg(text, note, code, detail) == [text |-> text, note |-> note, code |-> code, detail |-> detail]
DisabledMsg == Msg("Hook disabled after 3 consecutive failures", FALSE, "", "")
TimedOutMsg == Msg("Hook timed out", FALSE, "", "")

(***************************************************************************)
(* execFile: what the hook process can do, and the error object Node hands *)
(* to the callback                                                         *)
(***************************************************************************)
ExitStatuses ==
    {[kind |-> "exit", code |-> "0", signal |-> "null", stdout |-> so, stderr |-> ""] :
        so \in Stdouts}
    \cup {[kind |-> "exit", code |-> "2", signal |-> "null", stdout |-> "", stderr |-> se] :
        se \in Stderrs}
    \cup {[kind |-> "exit", code |-> "1", signal |-> "null", stdout |-> "",
           stderr |-> " no shell "]}
    \cup {[kind |-> "exit", code |-> "127", signal |-> "null", stdout |-> "", stderr |-> ""]}
    \cup {[kind |-> "signal", code |-> "null", signal |-> sg, stdout |-> "", stderr |-> ""] :
        sg \in {"SIGTERM", "SIGKILL"}}
    \cup {[kind |-> "spawnError", code |-> "ENOENT", signal |-> "null",
           stdout |-> "", stderr |-> ""]}
    \cup {[kind |-> "maxBuffer", code |-> "ERR_CHILD_PROCESS_STDIO_MAXBUFFER",
           signal |-> "SIGTERM", stdout |-> "oops", stderr |-> ""]}

ExecError_MaxBufferKilled(st, childKilled) ==
    IF st.kind = "exit" /\ st.code = "0" THEN Null
    ELSE IF st.kind = "spawnError"
         THEN [t |-> "error", code |-> st.code, killed |-> FALSE]
         ELSE [t |-> "error", code |-> st.code,
               killed |-> childKilled \/ st.kind = "maxBuffer"]

\* the `error` argument of the execFile callback: null after a clean exit 0,
\* the spawn / maxBuffer error as raised (no `killed` property), otherwise
\* a "Command failed" error carrying the exit code and child.killed
ExecError(st, childKilled) ==
    IF st.kind = "exit" /\ st.code = "0" THEN Null
    ELSE IF st.kind \in {"spawnError", "maxBuffer"}
         THEN [t |-> "error", code |-> st.code, killed |-> FALSE]
         ELSE [t |-> "error", code |-> st.code, killed |-> childKilled]

CommandCallback_NoTrim(cb, handlerId, error, stdout, stderr) ==
    IF error # Null /\ error.killed
    THEN [cb |-> recordFailure(cb, handlerId).cb, outcome |-> Error(TimedOutMsg),
          recorded |-> "failure"]
    ELSE LET exitCode == IF error = Null \/ error.code = "null" THEN "0" ELSE error.code
         IN  IF exitCode = "0"
             THEN LET output == IF stdout # "" THEN JSONparse(stdout) ELSE EmptyObject
                  IN  IF output # SyntaxError
                      THEN [cb |-> recordSuccess(cb, handlerId), outcome |-> Success(output),
                            recorded |-> "success"]
                      ELSE LET f == recordFailure(cb, handlerId)
                           IN  [cb |-> f.cb,
                                outcome |-> Error(Msg("Invalid JSON output", f.ret, "", stdout)),
                                recorded |-> "failure"]
             ELSE IF exitCode = "2"
                  THEN [cb |-> recordSuccess(cb, handlerId),
                        outcome |-> Blocked(IF trim(stderr) # "" THEN trim(stderr) ELSE "Hook denied"),
                        recorded |-> "success"]
                  ELSE LET f == recordFailure(cb, handlerId)
                       IN  [cb |-> f.cb,
                            outcome |-> Error(Msg("Hook failed", f.ret, exitCode, stderr)),
                            recorded |-> "failure"]

\* the execFile callback of runCommandHook after the timers are cleared:
\* the store after it, the outcome it resolves with, the recorder it applied
CommandCallback(cb, handlerId, error, stdout, stderr) ==
    IF error # Null /\ error.killed
    THEN [cb |-> recordFailure(cb, handlerId).cb, outcome |-> Error(TimedOutMsg),
          recorded |-> "failure"]
    ELSE LET exitCode == IF error = Null \/ error.code = "null" THEN "0" ELSE error.code
         IN  IF exitCode = "0"
             THEN LET output == IF trim(stdout) # "" THEN JSONparse(stdout) ELSE EmptyObject
                  IN  IF output # SyntaxError
                      THEN [cb |-> recordSuccess(cb, handlerId), outcome |-> Success(output),
                            recorded |-> "success"]
                      ELSE LET f == recordFailure(cb, handlerId)
                           IN  [cb |-> f.cb,
                                outcome |-> Error(Msg("Invalid JSON output", f.ret, "", stdout)),
                                recorded |-> "failure"]
             ELSE IF exitCode = "2"
                  THEN [cb |-> recordSuccess(cb, handlerId),
                        outcome |-> Blocked(IF trim(stderr) # "" THEN trim(stderr) ELSE "Hook denied"),
                        recorded |-> "success"]
                  ELSE LET f == recordFailure(cb, handlerId)
                       IN  [cb |-> f.cb,
                            outcome |-> Error(Msg("Hook failed", f.ret, exitCode, stderr)),
                            recorded |-> "failure"]

(***************************************************************************)
(* State                                                                   *)
(***************************************************************************)
NoInv ==
    [pc |-> "none", owner |-> "none", handler |-> Undefined, handlerId |-> <<>>,
     timeoutMs |-> 0, mainTimeout |-> "unset", killTimeout |-> "unset", killDelayMs |-> 0,
     child |-> "none", killed |-> FALSE, sigterm |-> FALSE, sigkill |-> FALSE,
     status |-> Undefined, outcome |-> Undefined,
     recorded |-> "none", startedDisabled |-> FALSE, spawned |-> FALSE,
     llmCalled |-> FALSE, llmReply |-> Undefined, resolutions |-> 0, priorFailures |-> 0,
     stdin |-> <<>>, stdinError |-> "none", stdinLogged |-> FALSE, input |-> Undefined]

AllowResult(updates) == [decision |-> "allow", reason |-> Undefined, updatedInput |-> updates]
DenyResult(reason) == [decision |-> "deny", reason |-> reason, updatedInput |-> Undefined]

\* the argument of runPreToolUseHooks and the input handed to the handlers
ToolInput == JObject([a |-> JStr("0")])
PreToolUseHookInput(tool) ==
    [session_id |-> "s1", tool_name |-> tool, tool_input |-> ToolInput, cwd |-> "/w"]
HookInput(input) ==
    [hook_event_name |-> "PreToolUse", session_id |-> input.session_id,
     tool_name |-> input.tool_name, tool_input |-> input.tool_input, cwd |-> input.cwd]

IdleOrch ==
    [pc |-> "idle", tool |-> <<>>, handlers |-> <<>>, i |-> 1,
     accumulatedUpdates |-> Undefined, result |-> Undefined, trace |-> <<>>,
     input |-> Undefined, hookInput |-> Undefined]

NoCall == [op |-> "none", id |-> <<>>, ret |-> FALSE]

EmptyStore == [x \in {} |-> [failures |-> 0, disabled |-> FALSE]]

InitCommon ==
    /\ circuitBreakers = EmptyStore
    /\ orch = [p \in Procs |-> IdleOrch]
    /\ inv = [p \in Procs |-> NoInv]
    /\ streak = [id \in HandlerIds |-> 0]
    /\ tripped = [id \in HandlerIds |-> FALSE]
    /\ api = NoCall

\* one caller: it either fires PreToolUse events under some configuration or
\* invokes runClaudeHook itself
Init ==
    /\ InitCommon
    /\ \/ settings \in Settings /\ active = [p \in {"t1"} |-> "orchestrator"]
       \/ settings = Undefined /\ active = [p \in {"t1"} |-> "direct"]

\* no caller: the exported breaker functions are called directly
InitBreaker ==
    /\ InitCommon
    /\ settings = Undefined
    /\ active = [p \in {} |-> "direct"]

\* ghost bookkeeping of one recorder operation on an identity
GhostRecord(kind, id) ==
    IF kind = "failure"
    THEN /\ streak' = [streak EXCEPT ![id] = Min(@ + 1, MAX_CONSECUTIVE_FAILURES)]
         /\ tripped' = [tripped EXCEPT ![id] = @ \/ streak[id] + 1 >= MAX_CONSECUTIVE_FAILURES]
    ELSE IF kind = "success"
         THEN /\ streak' = [streak EXCEPT ![id] = 0]
              /\ UNCHANGED tripped
         ELSE UNCHANGED <<streak, tripped>>

(***************************************************************************)
(* The breaker API called directly (exported functions)                    *)
(***************************************************************************)
CallRecordSuccess(id) ==
    /\ circuitBreakers' = recordSuccess(circuitBreakers, id)
    /\ GhostRecord("success", id)
    /\ api' = [op |-> "recordSuccess", id |-> id, ret |-> FALSE]
    /\ UNCHANGED <<settings, active, orch, inv>>

CallRecordFailure(id) ==
    /\ (IF id \in DOMAIN circuitBreakers
        THEN circuitBreakers[id].failures < MaxFailures ELSE TRUE)
    /\ LET f == recordFailure(circuitBreakers, id)
       IN  /\ circuitBreakers' = f.cb
           /\ api' = [op |-> "recordFailure", id |-> id, ret |-> f.ret]
    /\ GhostRecord("failure", id)
    /\ UNCHANGED <<settings, active, orch, inv>>

ResetCircuitBreaker(id) ==
    /\ circuitBreakers' = resetCircuitBreaker(circuitBreakers, id)
    /\ streak' = [streak EXCEPT ![id] = 0]
    /\ tripped' = [tripped EXCEPT ![id] = FALSE]
    /\ api' = NoCall
    /\ UNCHANGED <<settings, active, orch, inv>>

ResetAllCircuitBreakers ==
    /\ circuitBreakers' = resetAllCircuitBreakers(circuitBreakers)
    /\ streak' = [id \in HandlerIds |-> 0]
    /\ tripped' = [id \in HandlerIds |-> FALSE]
    /\ api' = NoCall
    /\ UNCHANGED <<settings, active, orch, inv>>

(***************************************************************************)
(* runClaudeHook: the synchronous part of one invocation                   *)
(***************************************************************************)
timeoutMsOf(handler, default) ==
    (IF handler.timeout = NoTimeout THEN default ELSE handler.timeout[1]) * 1000

runCommandHookStart_NoBreakerCheck(cb, handler, owner) ==
    LET handlerId == getHandlerId(handler)
        base == [NoInv EXCEPT !.owner = owner, !.handler = handler, !.handlerId = handlerId]
        parsed == parseCommand(handler.command)
    IN  IF ~parsed.ok
        THEN [cb |-> cb, recorded |-> "none",
              inv |-> [base EXCEPT !.pc = "resolved", !.outcome = Blocked(parsed.error),
                                   !.resolutions = 1]]
        ELSE [cb |-> cb, recorded |-> "none",
              inv |-> [base EXCEPT !.pc = "running", !.child = "alive", !.spawned = TRUE,
                                        !.stdin = <<"write", "end">>,
                                   !.mainTimeout = "pending",
                                   !.timeoutMs = timeoutMsOf(handler, DefaultTimeoutCommand)]]

runCommandHookStart_ParseErrorCounts(cb, handler, owner) ==
    LET handlerId == getHandlerId(handler)
        base == [NoInv EXCEPT !.owner = owner, !.handler = handler, !.handlerId = handlerId]
        parsed == parseCommand(handler.command)
    IN  IF isDisabled(cb, handlerId)
        THEN [cb |-> cb, recorded |-> "none",
              inv |-> [base EXCEPT !.pc = "resolved", !.outcome = Error(DisabledMsg),
                                   !.resolutions = 1]]
        ELSE IF ~parsed.ok
             THEN [cb |-> getCircuitBreaker(cb, handlerId), recorded |-> "none",
                   inv |-> [base EXCEPT !.pc = "resolved", !.outcome = Blocked(parsed.error),
                                        !.resolutions = 1]]
             ELSE [cb |-> cb, recorded |-> "none",
                   inv |-> [base EXCEPT !.pc = "running", !.child = "alive", !.spawned = TRUE,
                                        !.stdin = <<"write", "end">>,
                                        !.mainTimeout = "pending",
                                        !.timeoutMs = timeoutMsOf(handler, DefaultTimeoutCommand)]]

runCommandHookStart_FailClosed(cb, handler, owner) ==
    LET handlerId == getHandlerId(handler)
        base == [NoInv EXCEPT !.owner = owner, !.handler = handler, !.handlerId = handlerId]
        parsed == parseCommand(handler.command)
    IN  IF isDisabled(cb, handlerId)
        THEN [cb |-> cb, recorded |-> "none",
              inv |-> [base EXCEPT !.pc = "resolved",
                                   !.outcome = Blocked("Hook disabled after 3 consecutive failures"),
                                   !.resolutions = 1]]
        ELSE IF ~parsed.ok
             THEN [cb |-> cb, recorded |-> "none",
                   inv |-> [base EXCEPT !.pc = "resolved", !.outcome = Blocked(parsed.error),
                                        !.resolutions = 1]]
             ELSE [cb |-> cb, recorded |-> "none",
                   inv |-> [base EXCEPT !.pc = "running", !.child = "alive", !.spawned = TRUE,
                                        !.stdin = <<"write", "end">>,
                                        !.mainTimeout = "pending",
                                        !.timeoutMs = timeoutMsOf(handler, DefaultTimeoutCommand)]]

\* runCommandHook up to the point where the promise is pending or settled.
\* execFile throws ERR_INVALID_ARG_VALUE at once when the file name is the
\* empty string: the throw leaves the promise executor after mainTimeout was
\* armed, so the promise is rejected and the timer stays armed.
runCommandHookStart(cb, handler, owner) ==
    LET handlerId == getHandlerId(handler)
        base == [NoInv EXCEPT !.owner = owner, !.handler = handler, !.handlerId = handlerId]
        parsed == parseCommand(handler.command)
    IN  IF isDisabled(cb, handlerId)
        THEN [cb |-> cb, recorded |-> "none",
              inv |-> [base EXCEPT !.pc = "resolved", !.outcome = Error(DisabledMsg),
                                   !.resolutions = 1]]
        ELSE IF ~parsed.ok
             THEN [cb |-> cb, recorded |-> "none",
                   inv |-> [base EXCEPT !.pc = "resolved", !.outcome = Blocked(parsed.error),
                                        !.resolutions = 1]]
             ELSE IF parsed.argv[1] = <<>>
             THEN [cb |-> cb, recorded |-> "none",
                   inv |-> [base EXCEPT !.pc = "rejected", !.mainTimeout = "pending",
                                        !.timeoutMs = timeoutMsOf(handler, DefaultTimeoutCommand)]]
             ELSE [cb |-> cb, recorded |-> "none",
                   inv |-> [base EXCEPT !.pc = "running", !.child = "alive", !.spawned = TRUE,
                                        !.stdin = <<"write", "end">>,
                                        !.mainTimeout = "pending",
                                        !.timeoutMs = timeoutMsOf(handler, DefaultTimeoutCommand)]]

\* what a provider answers: the content as a sequence of pieces, a piece being
\* a code fence or a text
Fence == "FENCE"
Replies == {<<OutAllowA>>, <<Fence, OutAllowA, Fence>>, <<"oops">>}

\* the text JSON.parse is given: the inside of the first fenced block when
\* there is one, the whole content otherwise
stripCodeFence(content) ==
    LET open == IndexOf(content, Fence)
        rest == IF open = 0 THEN <<>> ELSE SubSeq(content, open + 1, Len(content))
        close == IndexOf(rest, Fence)
    IN  IF open # 0 /\ close # 0
        THEN IF close = 1 THEN "" ELSE trim(rest[1])
        ELSE trim(content[1])

\* the methods of the object createMultiProviderLLM returns
LLMMethods == {"complete", "completeWithSchema"}

\* runPromptHook: calling llm.chat, which the client does not define, throws a
\* TypeError inside the try block; the catch records a failure
runPromptHook(cb, handler, owner) ==
    LET handlerId == getHandlerId(handler)
        base == [NoInv EXCEPT !.owner = owner, !.handler = handler, !.handlerId = handlerId,
                              !.pc = "resolved", !.resolutions = 1,
                              !.timeoutMs = timeoutMsOf(handler, DefaultTimeoutPrompt)]
    IN  IF isDisabled(cb, handlerId)
        THEN [cb |-> cb, recorded |-> "none",
              inv |-> [base EXCEPT !.outcome = Error(DisabledMsg)]]
        ELSE IF "chat" \in LLMMethods
             THEN [cb |-> cb, recorded |-> "none",
                   inv |-> [base EXCEPT !.pc = "racing", !.llmCalled = TRUE, !.resolutions = 0,
                                        !.mainTimeout = "pending"]]
             ELSE LET f == recordFailure(cb, handlerId)
                  IN  [cb |-> f.cb, recorded |-> "failure",
                       inv |-> [base EXCEPT !.llmCalled = TRUE, !.recorded = "failure",
                                    !.outcome = Error(Msg("Prompt hook failed", f.ret, "",
                                                          "llm.chat is not a function"))]]

runClaudeHook_AgentCountsFailure(cb, handler, owner) ==
    CASE handler.type = "command" -> runCommandHookStart(cb, handler, owner)
      [] handler.type = "prompt" -> runPromptHook(cb, handler, owner)
      [] OTHER ->
            [cb |-> recordFailure(cb, getHandlerId(handler)).cb, recorded |-> "failure",
             inv |-> [NoInv EXCEPT !.owner = owner, !.handler = handler,
                          !.handlerId = getHandlerId(handler), !.pc = "resolved",
                          !.resolutions = 1,
                          !.outcome = IF handler.type = "agent"
                                      THEN Error(Msg("Agent handlers not yet implemented",
                                                     FALSE, "", ""))
                                      ELSE Error(Msg("Unknown handler type", FALSE, "",
                                                     handler.type))]]

runClaudeHook(cb, handler, owner) ==
    CASE handler.type = "command" -> runCommandHookStart(cb, handler, owner)
      [] handler.type = "prompt" -> runPromptHook(cb, handler, owner)
      [] handler.type = "agent" ->
            [cb |-> cb, recorded |-> "none",
             inv |-> [NoInv EXCEPT !.owner = owner, !.handler = handler,
                          !.handlerId = getHandlerId(handler), !.pc = "resolved",
                          !.resolutions = 1,
                          !.outcome = Error(Msg("Agent handlers not yet implemented",
                                                FALSE, "", ""))]]
      [] OTHER ->
            [cb |-> cb, recorded |-> "none",
             inv |-> [NoInv EXCEPT !.owner = owner, !.handler = handler,
                          !.handlerId = getHandlerId(handler), !.pc = "resolved",
                          !.resolutions = 1,
                          !.outcome = Error(Msg("Unknown handler type", FALSE, "",
                                                handler.type))]]

\* caller p invokes runClaudeHook(handler, input); startedDisabled and
\* priorFailures (ghosts) note what the store said about the identity when the
\* invocation began, llmReply (a ghost) what the provider would answer to the
\* request of this invocation; input is the second argument of runClaudeHook
InvokeInput(p, handler, owner, reply, input) ==
    LET r == runClaudeHook(circuitBreakers, handler, owner)
    IN  /\ circuitBreakers' = r.cb
        /\ inv' = [inv EXCEPT ![p] =
                [r.inv EXCEPT !.startedDisabled =
                                isDisabled(circuitBreakers, getHandlerId(handler)),
                              !.priorFailures =
                                failuresOf(circuitBreakers, getHandlerId(handler)),
                              !.llmReply = reply,
                              !.input = input]]
        /\ GhostRecord(r.recorded, r.inv.handlerId)

InvokeWith(p, handler, owner, reply) ==
    InvokeInput(p, handler, owner, reply, HookInput(PreToolUseHookInput(Bash)))

Invoke(p, handler, owner) == InvokeWith(p, handler, owner, Undefined)

CallerFree(p) ==
    /\ p \in DOMAIN active
    /\ orch[p].pc \in {"idle", "done", "threw"}
    /\ inv[p].pc \in {"none", "resolved", "rejected"}

\* a caller other than the orchestrator invokes runClaudeHook
DirectCall(p, handler) ==
    /\ CallerFree(p)
    /\ active[p] = "direct"
    /\ \E reply \in (IF handler.type = "prompt" THEN Replies ELSE {Undefined}) :
            InvokeWith(p, handler, "direct", reply)
    /\ orch' = [orch EXCEPT ![p] = IdleOrch]
    /\ UNCHANGED <<settings, active, api>>

(***************************************************************************)
(* runCommandHook: timers, the child process and the execFile callback     *)
(***************************************************************************)
MainTimeoutFire_KillAtOnce(p) ==
    /\ p \in DOMAIN active
    /\ inv[p].pc = "running"
    /\ inv[p].mainTimeout = "pending"
    /\ inv' = [inv EXCEPT ![p].mainTimeout = "fired",
                          ![p].killTimeout = "pending",
                          ![p].killDelayMs = KillGraceMs,
                          ![p].sigterm = @ \/ inv[p].child = "alive",
                          ![p].sigkill = @ \/ inv[p].child = "alive",
                          ![p].killed = @ \/ inv[p].child = "alive"]
    /\ UNCHANGED <<circuitBreakers, settings, active, orch, streak, tripped, api>>

\* mainTimeout expires: SIGTERM to the child, then the kill timer is armed.
\* child.kill() succeeds (and sets child.killed) while the process handle is
\* open; it does nothing once the exit has been delivered.
MainTimeoutFire(p) ==
    /\ p \in DOMAIN active
    /\ inv[p].pc = "running"
    /\ inv[p].mainTimeout = "pending"
    /\ inv' = [inv EXCEPT ![p].mainTimeout = "fired",
                          ![p].killTimeout = "pending",
                          ![p].killDelayMs = KillGraceMs,
                          ![p].sigterm = @ \/ inv[p].child = "alive",
                          ![p].killed = @ \/ inv[p].child = "alive"]
    /\ UNCHANGED <<circuitBreakers, settings, active, orch, streak, tripped, api>>

KillTimeoutFire_NoSignal(p) ==
    /\ p \in DOMAIN active
    /\ inv[p].pc = "running"
    /\ inv[p].killTimeout = "pending"
    /\ inv' = [inv EXCEPT ![p].killTimeout = "fired"]
    /\ UNCHANGED <<circuitBreakers, settings, active, orch, streak, tripped, api>>

\* killTimeout expires 5 s later: SIGKILL
KillTimeoutFire(p) ==
    /\ p \in DOMAIN active
    /\ inv[p].pc = "running"
    /\ inv[p].killTimeout = "pending"
    /\ inv' = [inv EXCEPT ![p].killTimeout = "fired",
                          ![p].sigkill = @ \/ inv[p].child = "alive",
                          ![p].killed = @ \/ inv[p].child = "alive"]
    /\ UNCHANGED <<circuitBreakers, settings, active, orch, streak, tripped, api>>

\* error codes the stdin stream of the process can emit: the two the handler
\* ignores and one other
StdinErrorCodes == {"EPIPE", "ERR_STREAM_DESTROYED", "EIO"}

\* the "error" listener of child.stdin runs: it writes a line to the console
\* unless the code is EPIPE or ERR_STREAM_DESTROYED, and does nothing else
StdinError(p, code) ==
    /\ p \in DOMAIN active
    /\ inv[p].pc = "running"
    /\ inv[p].stdin # <<>>
    /\ inv[p].stdinError = "none"
    /\ inv' = [inv EXCEPT ![p].stdinError = code,
                          ![p].stdinLogged = code \notin {"EPIPE", "ERR_STREAM_DESTROYED"}]
    /\ UNCHANGED <<circuitBreakers, settings, active, orch, streak, tripped, api>>

\* the process ends (or fails to start, or overruns maxBuffer): its handle
\* closes; a process that failed to start never had a stdin stream
ChildExit(p, st) ==
    /\ p \in DOMAIN active
    /\ inv[p].pc = "running"
    /\ inv[p].child = "alive"
    /\ st.kind = "spawnError" => inv[p].mainTimeout = "pending" /\ inv[p].stdinError = "none"
    /\ inv' = [inv EXCEPT ![p].child = "exited", ![p].status = st,
                          ![p].stdin = IF st.kind = "spawnError" THEN <<>> ELSE @]
    /\ UNCHANGED <<circuitBreakers, settings, active, orch, streak, tripped, api>>

ExecCallback_StaleCount(p) ==
    /\ p \in DOMAIN active
    /\ inv[p].pc = "running"
    /\ inv[p].child = "exited"
    /\ LET st == inv[p].status
           r == CommandCallback(circuitBreakers, inv[p].handlerId,
                                ExecError(st, inv[p].killed), st.stdout, st.stderr)
       IN  /\ circuitBreakers' =
                IF r.recorded = "failure"
                THEN [r.cb EXCEPT ![inv[p].handlerId].failures = inv[p].priorFailures + 1]
                ELSE r.cb
           /\ inv' = [inv EXCEPT ![p].pc = "resolved",
                                 ![p].child = "closed",
                                 ![p].mainTimeout = IF @ = "pending" THEN "cleared" ELSE @,
                                 ![p].killTimeout = IF @ = "pending" THEN "cleared" ELSE @,
                                 ![p].outcome = r.outcome,
                                 ![p].recorded = r.recorded,
                                 ![p].resolutions = @ + 1,
                                 ![p].priorFailures =
                                    failuresOf(circuitBreakers, inv[p].handlerId)]
           /\ GhostRecord(r.recorded, inv[p].handlerId)
    /\ UNCHANGED <<settings, active, orch, api>>

ExecCallback_RechecksDisabled(p) ==
    /\ p \in DOMAIN active
    /\ inv[p].pc = "running"
    /\ inv[p].child = "exited"
    /\ LET st == inv[p].status
           c == CommandCallback(circuitBreakers, inv[p].handlerId,
                                ExecError(st, inv[p].killed), st.stdout, st.stderr)
           r == IF isDisabled(circuitBreakers, inv[p].handlerId)
                THEN [cb |-> circuitBreakers, outcome |-> Error(DisabledMsg),
                      recorded |-> "none"]
                ELSE c
       IN  /\ circuitBreakers' = r.cb
           /\ inv' = [inv EXCEPT ![p].pc = "resolved",
                                 ![p].child = "closed",
                                 ![p].mainTimeout = IF @ = "pending" THEN "cleared" ELSE @,
                                 ![p].killTimeout = IF @ = "pending" THEN "cleared" ELSE @,
                                 ![p].outcome = r.outcome,
                                 ![p].recorded = r.recorded,
                                 ![p].resolutions = @ + 1,
                                 ![p].priorFailures =
                                    failuresOf(circuitBreakers, inv[p].handlerId)]
           /\ GhostRecord(r.recorded, inv[p].handlerId)
    /\ UNCHANGED <<settings, active, orch, api>>

ExecCallback_LeavesKillTimer(p) ==
    /\ p \in DOMAIN active
    /\ inv[p].pc = "running"
    /\ inv[p].child = "exited"
    /\ LET st == inv[p].status
           r == CommandCallback(circuitBreakers, inv[p].handlerId,
                                ExecError(st, inv[p].killed), st.stdout, st.stderr)
       IN  /\ circuitBreakers' = r.cb
           /\ inv' = [inv EXCEPT ![p].pc = "resolved",
                                 ![p].child = "closed",
                                 ![p].mainTimeout = IF @ = "pending" THEN "cleared" ELSE @,
                                 ![p].outcome = r.outcome,
                                 ![p].recorded = r.recorded,
                                 ![p].resolutions = @ + 1,
                                 ![p].priorFailures =
                                    failuresOf(circuitBreakers, inv[p].handlerId)]
           /\ GhostRecord(r.recorded, inv[p].handlerId)
    /\ UNCHANGED <<settings, active, orch, api>>

\* the execFile callback runs: timers are cleared and the promise resolves
\* (priorFailures, a ghost, keeps the count the store held when it ran)
ExecCallback(p) ==
    /\ p \in DOMAIN active
    /\ inv[p].pc = "running"
    /\ inv[p].child = "exited"
    /\ LET st == inv[p].status
           r == CommandCallback(circuitBreakers, inv[p].handlerId,
                                ExecError(st, inv[p].killed), st.stdout, st.stderr)
       IN  /\ circuitBreakers' = r.cb
           /\ inv' = [inv EXCEPT ![p].pc = "resolved",
                                 ![p].child = "closed",
                                 ![p].mainTimeout = IF @ = "pending" THEN "cleared" ELSE @,
                                 ![p].killTimeout = IF @ = "pending" THEN "cleared" ELSE @,
                                 ![p].outcome = r.outcome,
                                 ![p].recorded = r.recorded,
                                 ![p].resolutions = @ + 1,
                                 ![p].priorFailures =
                                    failuresOf(circuitBreakers, inv[p].handlerId)]
           /\ GhostRecord(r.recorded, inv[p].handlerId)
    /\ UNCHANGED <<settings, active, orch, api>>

(***************************************************************************)
(* runPreToolUseHooks                                                      *)
(***************************************************************************)
RunPreToolUseHooks(p, tool) ==
    /\ CallerFree(p)
    /\ active[p] = "orchestrator"
    /\ LET config == settings
           handlers == matchHooks(config, "PreToolUse", tool)
       IN  orch' = [orch EXCEPT ![p] =
                IF config = Undefined \/ Len(handlers) = 0
                THEN [IdleOrch EXCEPT !.pc = "done", !.tool = tool,
                                      !.input = PreToolUseHookInput(tool),
                                      !.result = AllowResult(Undefined)]
                ELSE [IdleOrch EXCEPT !.pc = "loop", !.tool = tool, !.handlers = handlers,
                                      !.input = PreToolUseHookInput(tool),
                                      !.hookInput = HookInput(PreToolUseHookInput(tool))]]
    /\ inv' = [inv EXCEPT ![p] = NoInv]
    /\ UNCHANGED <<circuitBreakers, settings, active, streak, tripped, api>>

OrchSkip_Dispatches(p) ==
    /\ p \in DOMAIN active
    /\ orch[p].pc = "loop"
    /\ orch[p].i <= Len(orch[p].handlers)
    /\ orch[p].handlers[orch[p].i].type # "command"
    /\ Invoke(p, orch[p].handlers[orch[p].i], "orch")
    /\ orch' = [orch EXCEPT ![p].pc = "await"]
    /\ UNCHANGED <<settings, active, api>>

\* a handler that is not a command handler is skipped
OrchSkip(p) ==
    /\ p \in DOMAIN active
    /\ orch[p].pc = "loop"
    /\ orch[p].i <= Len(orch[p].handlers)
    /\ orch[p].handlers[orch[p].i].type # "command"
    /\ orch' = [orch EXCEPT ![p].i = @ + 1,
                            ![p].trace = Append(@, [idx |-> orch[p].i, kind |-> "skipped",
                                                    outcome |-> Undefined,
                                                    startedDisabled |-> FALSE])]
    /\ UNCHANGED <<circuitBreakers, settings, active, inv, streak, tripped, api>>

OrchDispatch_NoAwait(p) ==
    /\ p \in DOMAIN active
    /\ orch[p].pc = "loop"
    /\ orch[p].i <= Len(orch[p].handlers)
    /\ orch[p].handlers[orch[p].i].type = "command"
    /\ Invoke(p, orch[p].handlers[orch[p].i], "orch")
    /\ orch' = [orch EXCEPT ![p].i = @ + 1,
                            ![p].trace = Append(@, [idx |-> orch[p].i, kind |-> "skipped",
                                                    outcome |-> Undefined,
                                                    startedDisabled |-> FALSE])]
    /\ UNCHANGED <<settings, active, api>>

OrchDispatch_PassesUpdates(p) ==
    /\ p \in DOMAIN active
    /\ orch[p].pc = "loop"
    /\ orch[p].i <= Len(orch[p].handlers)
    /\ orch[p].handlers[orch[p].i].type = "command"
    /\ InvokeInput(p, orch[p].handlers[orch[p].i], "orch", Undefined,
                   [orch[p].hookInput EXCEPT !.tool_input =
                        IF orch[p].accumulatedUpdates = Undefined
                        THEN @ ELSE Spread(@, orch[p].accumulatedUpdates)])
    /\ orch' = [orch EXCEPT ![p].pc = "await"]
    /\ UNCHANGED <<settings, active, api>>

\* result = await runClaudeHook(handler, hookInput): the call
OrchDispatch(p) ==
    /\ p \in DOMAIN active
    /\ orch[p].pc = "loop"
    /\ orch[p].i <= Len(orch[p].handlers)
    /\ orch[p].handlers[orch[p].i].type = "command"
    /\ InvokeInput(p, orch[p].handlers[orch[p].i], "orch", Undefined, orch[p].hookInput)
    /\ orch' = [orch EXCEPT ![p].pc = "await"]
    /\ UNCHANGED <<settings, active, api>>

HandleResult_NoShortCircuit(o, result) ==
    IF result.v = "blocked"
    THEN [o EXCEPT !.pc = "loop", !.i = @ + 1, !.result = DenyResult(result.reason)]
    ELSE IF result.v = "error"
    THEN [o EXCEPT !.pc = "loop", !.i = @ + 1]
    ELSE LET output == result.output
         IN  IF output = Null
             THEN [o EXCEPT !.pc = "threw"]
             ELSE IF Prop(output, "decision") = JStr("deny")
             THEN [o EXCEPT !.pc = "loop", !.i = @ + 1,
                            !.result = DenyResult(Prop(output, "reason"))]
             ELSE LET upd == Prop(output, "updatedInput")
                  IN  [o EXCEPT !.pc = "loop", !.i = @ + 1,
                                !.accumulatedUpdates =
                                    IF Truthy(upd) THEN Spread(@, upd) ELSE @]

HandleResult_AskReturned(o, result) ==
    IF result.v = "blocked"
    THEN [o EXCEPT !.pc = "done", !.result = DenyResult(result.reason)]
    ELSE IF result.v = "error"
    THEN [o EXCEPT !.pc = "loop", !.i = @ + 1]
    ELSE LET output == result.output
         IN  IF output = Null
             THEN [o EXCEPT !.pc = "threw"]
             ELSE IF Prop(output, "decision") = JStr("deny")
             THEN [o EXCEPT !.pc = "done", !.result = DenyResult(Prop(output, "reason"))]
             ELSE IF Prop(output, "decision") = JStr("ask")
             THEN [o EXCEPT !.pc = "done",
                            !.result = [decision |-> "ask", reason |-> Prop(output, "reason"),
                                        updatedInput |-> Undefined]]
             ELSE LET upd == Prop(output, "updatedInput")
                  IN  [o EXCEPT !.pc = "loop", !.i = @ + 1,
                                !.accumulatedUpdates =
                                    IF Truthy(upd) THEN Spread(@, upd) ELSE @]

HandleResult_ErrorDenies(o, result) ==
    IF result.v = "blocked"
    THEN [o EXCEPT !.pc = "done", !.result = DenyResult(result.reason)]
    ELSE IF result.v = "error"
    THEN [o EXCEPT !.pc = "done", !.result = DenyResult(JStr(result.message.text))]
    ELSE LET output == result.output
         IN  IF output = Null
             THEN [o EXCEPT !.pc = "threw"]
             ELSE IF Prop(output, "decision") = JStr("deny")
             THEN [o EXCEPT !.pc = "done", !.result = DenyResult(Prop(output, "reason"))]
             ELSE LET upd == Prop(output, "updatedInput")
                  IN  [o EXCEPT !.pc = "loop", !.i = @ + 1,
                                !.accumulatedUpdates =
                                    IF Truthy(upd) THEN Spread(@, upd) ELSE @]

\* what the loop body does with the awaited result; reading `output.decision`
\* of a null output throws, which rejects the promise of runPreToolUseHooks
HandleResult(o, result) ==
    IF result.v = "blocked"
    THEN [o EXCEPT !.pc = "done", !.result = DenyResult(result.reason)]
    ELSE IF result.v = "error"
    THEN [o EXCEPT !.pc = "loop", !.i = @ + 1]
    ELSE LET output == result.output
         IN  IF output = Null
             THEN [o EXCEPT !.pc = "threw"]
             ELSE IF Prop(output, "decision") = JStr("deny")
             THEN [o EXCEPT !.pc = "done", !.result = DenyResult(Prop(output, "reason"))]
             ELSE LET upd == Prop(output, "updatedInput")
                  IN  [o EXCEPT !.pc = "loop", !.i = @ + 1,
                                !.accumulatedUpdates =
                                    IF Truthy(upd) THEN Spread(@, upd) ELSE @]

\* result = await runClaudeHook(handler, hookInput): the continuation
OrchResult(p) ==
    /\ p \in DOMAIN active
    /\ orch[p].pc = "await"
    /\ inv[p].pc = "resolved"
    /\ orch' = [orch EXCEPT ![p] =
            [HandleResult(orch[p], inv[p].outcome) EXCEPT
                !.trace = Append(orch[p].trace,
                                 [idx |-> orch[p].i, kind |-> "invoked",
                                  outcome |-> inv[p].outcome,
                                  startedDisabled |-> inv[p].startedDisabled])]]
    /\ UNCHANGED <<circuitBreakers, settings, active, inv, streak, tripped, api>>

\* all hooks passed
OrchFinish(p) ==
    /\ p \in DOMAIN active
    /\ orch[p].pc = "loop"
    /\ orch[p].i > Len(orch[p].handlers)
    /\ orch' = [orch EXCEPT ![p].pc = "done",
                            ![p].result = AllowResult(orch[p].accumulatedUpdates)]
    /\ UNCHANGED <<circuitBreakers, settings, active, inv, streak, tripped, api>>

(***************************************************************************)
(* Specifications                                                          *)
(***************************************************************************)
Next ==
    \/ \E id \in HandlerIds : ResetCircuitBreaker(id)
    \/ ResetAllCircuitBreakers
    \/ \E p \in Procs, h \in DirectHandlers : DirectCall(p, h)
    \/ \E p \in Procs, tool \in Tools : RunPreToolUseHooks(p, tool)
    \/ \E p \in Procs : OrchSkip(p)
    \/ \E p \in Procs : OrchDispatch(p)
    \/ \E p \in Procs : OrchResult(p)
    \/ \E p \in Procs : OrchFinish(p)
    \/ \E p \in Procs : MainTimeoutFire(p)
    \/ \E p \in Procs : KillTimeoutFire(p)
    \/ \E p \in Procs, st \in ExitStatuses : ChildExit(p, st)
    \/ \E p \in Procs : ExecCallback(p)

Spec == Init /\ [][Next]_vars

NextBreaker ==
    \/ \E id \in BreakerIds : CallRecordSuccess(id)
    \/ \E id \in BreakerIds : CallRecordFailure(id)
    \/ \E id \in BreakerIds : ResetCircuitBreaker(id)
    \/ ResetAllCircuitBreakers

SpecBreaker == InitBreaker /\ [][NextBreaker]_vars

\* Two orchestrator instances of one Node process share the module-level
\* store: both serve PreToolUse events for Bash under the same configuration,
\* so their invocations of the one matching handler overlap.  Every step is one
\* run-to-completion turn of the event loop.
SharedConfig == ConfigOneRule
SharedIds == {getHandlerId(HCheck)}
SharedStatuses ==
    {st \in ExitStatuses :
        \/ st.kind = "exit" /\ st.code = "0" /\ st.stdout = OutAllowA
        \/ st.kind = "exit" /\ st.code = "1"
        \/ st.kind = "signal" /\ st.signal = "SIGTERM"}

InitShared ==
    /\ InitCommon
    /\ settings = SharedConfig
    /\ active = [p \in Procs |-> "orchestrator"]

NextShared ==
    \/ \E id \in SharedIds : ResetCircuitBreaker(id)
    \/ \E p \in Procs : RunPreToolUseHooks(p, Bash)
    \/ \E p \in Procs : OrchDispatch(p)
    \/ \E p \in Procs : OrchResult(p)
    \/ \E p \in Procs : OrchFinish(p)
    \/ \E p \in Procs : MainTimeoutFire(p)
    \/ \E p \in Procs : KillTimeoutFire(p)
    \/ \E p \in Procs, st \in SharedStatuses : ChildExit(p, st)
    \/ \E p \in Procs : ExecCallback(p)

SpecShared == InitShared /\ [][NextShared]_vars

\* One caller invokes a command handler again and again.  The process may end
\* at any moment with any status or not at all; what is assumed of the
\* environment is that an armed timer expires, that a process sent SIGKILL
\* ends, and that the callback of execFile runs once the process has ended.
LiveHandlers == {HLint}
KilledStatus ==
    [kind |-> "signal", code |-> "null", signal |-> "SIGKILL", stdout |-> "", stderr |-> ""]

KilledChildDies(p) ==
    /\ inv[p].sigkill
    /\ ChildExit(p, KilledStatus)

InitLive ==
    /\ InitCommon
    /\ settings = Undefined
    /\ active = [p \in {"t1"} |-> "direct"]

NextLive ==
    \/ \E p \in Procs, h \in LiveHandlers : DirectCall(p, h)
    \/ \E p \in Procs : MainTimeoutFire(p)
    \/ \E p \in Procs : KillTimeoutFire(p)
    \/ \E p \in Procs, st \in ExitStatuses : ChildExit(p, st)
    \/ \E p \in Procs : ExecCallback(p)

SpecLive ==
    /\ InitLive
    /\ [][NextLive]_vars
    /\ \A p \in Procs :
          /\ WF_vars(MainTimeoutFire(p))
          /\ WF_vars(KillTimeoutFire(p))
          /\ WF_vars(KilledChildDies(p))
          /\ WF_vars(ExecCallback(p))

\* One caller invokes a command handler; besides the timers and the end of
\* the process, the stdin stream of the process may emit an error while the
\* invocation is pending.
NextStdin ==
    \/ NextLive
    \/ \E p \in Procs, code \in StdinErrorCodes : StdinError(p, code)

SpecStdin == InitLive /\ [][NextStdin]_vars

(***************************************************************************)
(* The exported pure functions called on their own: the argument is drawn  *)
(* in the initial state and the call puts the function's result next to it *)
(***************************************************************************)
CmdAlphabet == {"c", " ", ";", "|", ">", Backtick, "'"}

Strings(alphabet, n) == UNION {[1..k -> alphabet] : k \in 0..n}

Commands ==
    {StrCmd(t) : t \in Strings(CmdAlphabet, MaxCmdLen)}
    \cup {ArrCmd(items) : items \in {<<>>, << <<"c">> >>, << <<"c">>, <<"|">> >>, << <<>> >>}}

Pending(fn, args) == [op |-> "call", id |-> <<fn>> \o args, ret |-> FALSE]
Returned(call, ret) == [op |-> call.id[1], id |-> call.id, ret |-> ret]

NameAlphabet == {"a", ".", "*", "?"}
Patterns == Strings(NameAlphabet, MaxNameLen) \ {<<>>}
Identifiers == Strings(NameAlphabet, MaxNameLen)

RuleChoices ==
    {Rule(m, hs) : m \in {Bash, Read, <<"*">>, <<"B", "*">>},
                   hs \in {<<HCheck>>, <<HLint, HCheck>>, <<HCheck, HCheck>>}}
RuleLists == Strings(RuleChoices, MaxRules)
Configs ==
    {Undefined}
    \cup {Config([PreToolUse |-> rl]) : rl \in RuleLists}
    \cup {Config([PreToolUse |-> rl, PostToolUse |-> << Rule(<<"*">>, <<HPrompt>>) >>]) :
            rl \in RuleLists}
Events == {"PreToolUse", "PostToolUse", "Stop"}

PureCalls ==
    {Pending("parseCommand", <<c>>) : c \in Commands}
    \cup {Pending("matchesPattern", <<pt, id>>) : pt \in Patterns, id \in Identifiers}
    \cup {Pending("matchesPattern", << <<>>, <<>> >>)}
    \cup {Pending("matchHooks", <<cf, ev, tool>>) : cf \in Configs, ev \in Events, tool \in Tools}

InitPure ==
    /\ circuitBreakers = EmptyStore
    /\ orch = [p \in Procs |-> IdleOrch]
    /\ inv = [p \in Procs |-> NoInv]
    /\ streak = [id \in HandlerIds |-> 0]
    /\ tripped = [id \in HandlerIds |-> FALSE]
    /\ active = [p \in {} |-> "direct"]
    /\ api \in PureCalls
    /\ settings = IF api.id[1] = "matchHooks" THEN api.id[2] ELSE Undefined

ApplyParseCommand ==
    /\ api.op = "call"
    /\ api.id[1] = "parseCommand"
    /\ api' = Returned(api, parseCommand(api.id[2]))
    /\ UNCHANGED <<circuitBreakers, settings, active, orch, inv, streak, tripped>>

ApplyMatchesPattern ==
    /\ api.op = "call"
    /\ api.id[1] = "matchesPattern"
    /\ api' = Returned(api, matchesPatternSteps(api.id[2], api.id[3]))
    /\ UNCHANGED <<circuitBreakers, settings, active, orch, inv, streak, tripped>>

\* matchHooks(config, event, identifier) with config the loaded settings
ApplyMatchHooks ==
    /\ api.op = "call"
    /\ api.id[1] = "matchHooks"
    /\ api' = Returned(api, matchHooks(settings, api.id[3], api.id[4]))
    /\ UNCHANGED <<circuitBreakers, settings, active, orch, inv, streak, tripped>>

NextPure ==
    \/ ApplyParseCommand
    \/ ApplyMatchesPattern
    \/ ApplyMatchHooks

SpecPure == InitPure /\ [][NextPure]_vars

TypeOK ==
    /\ DOMAIN circuitBreakers \subseteq HandlerIds
    /\ \A p \in Procs : orch[p].pc \in {"idle", "loop", "await", "done", "threw"}

(***************************************************************************)
(* Properties                                                              *)
(***************************************************************************)
\* C1: from fresh or reset state an identity is disabled exactly when a run of
\* 3 recorded failures with no success in between has been applied; below
\* that, the counter equals the length of the current failure run (a success
\* puts it back to 0); recordFailure returns true exactly when the count after
\* the increment is at least 3.
C1_DisabledExactlyAfterThreeInARow ==
    /\ \A id \in BreakerIds :
          /\ isDisabled(circuitBreakers, id) <=> tripped[id]
          /\ ~tripped[id] => failuresOf(circuitBreakers, id) = streak[id]
          /\ streak[id] < MAX_CONSECUTIVE_FAILURES /\ id \in DOMAIN circuitBreakers
                => circuitBreakers[id].failures = streak[id]
    /\ api.op = "recordFailure"
          => (api.ret <=> circuitBreakers[api.id].failures >= MAX_CONSECUTIVE_FAILURES)
    /\ api.op = "recordSuccess" => circuitBreakers[api.id].failures = 0

\* one identity has just been disabled by its third failure in a row while the
\* other, two failures into a run, is not
C1_Witness ==
    \E id \in BreakerIds :
        /\ api = [op |-> "recordFailure", id |-> id, ret |-> TRUE]
        /\ circuitBreakers[id] = [failures |-> MAX_CONSECUTIVE_FAILURES, disabled |-> TRUE]
        /\ \E other \in BreakerIds \ {id} :
              /\ other \in DOMAIN circuitBreakers
              /\ circuitBreakers[other] = [failures |-> 2, disabled |-> FALSE]

\* C2: a disabled identity stays disabled through recordSuccess and
\* recordFailure; it stops being disabled only in a step that is a reset and
\* removes its entry; recordSuccess sets failures to 0 and leaves disabled as
\* it was.
C2_DisabledUntilReset ==
    [][\A id \in BreakerIds :
          /\ isDisabled(circuitBreakers, id) /\ ~isDisabled(circuitBreakers', id)
                => api' = NoCall /\ id \notin DOMAIN circuitBreakers'
          /\ api'.op = "recordSuccess" /\ api'.id = id
                => /\ circuitBreakers'[id].failures = 0
                   /\ circuitBreakers'[id].disabled = isDisabled(circuitBreakers, id)
      ]_vars

\* recordSuccess was applied to a disabled identity, which is still disabled
C2_Witness ==
    \E id \in BreakerIds :
        /\ api.op = "recordSuccess" /\ api.id = id
        /\ circuitBreakers[id] = [failures |-> 0, disabled |-> TRUE]

\* an invocation of runClaudeHook by caller p begins in this step
StartsInvocation(p) ==
    /\ inv[p].pc \in {"none", "resolved", "rejected"}
    /\ inv'[p].pc # "none"
    /\ inv'[p] # inv[p]

\* C3: an invocation of runCommandHook or runPromptHook that begins while the
\* store reports its identity disabled is resolved at once with the
\* "disabled" Error, has spawned no process, armed no timer, reached no LLM
\* call, and leaves the breaker store as it was.
C3_DisabledNeverExecutes ==
    [][\A p \in Procs :
          (/\ StartsInvocation(p)
           /\ inv'[p].handler.type \in {"command", "prompt"}
           /\ isDisabled(circuitBreakers, getHandlerId(inv'[p].handler)))
          => /\ inv'[p].pc = "resolved"
             /\ inv'[p].outcome = Error(DisabledMsg)
             /\ ~inv'[p].spawned
             /\ ~inv'[p].llmCalled
             /\ inv'[p].child = "none"
             /\ inv'[p].mainTimeout = "unset" /\ inv'[p].killTimeout = "unset"
             /\ circuitBreakers' = circuitBreakers
      ]_vars

\* the orchestrator dispatched a command handler whose identity was disabled
C3_Witness ==
    \E p \in Procs :
        /\ inv[p].pc = "resolved"
        /\ inv[p].owner = "orch"
        /\ inv[p].startedDisabled
        /\ inv[p].handler.type = "command"
        /\ inv[p].outcome = Error(DisabledMsg)

IsDeny(outcome) ==
    \/ outcome.v = "blocked"
    \/ outcome.v = "success" /\ Prop(outcome.output, "decision") = JStr("deny")

DenyReason(outcome) ==
    IF outcome.v = "blocked" THEN outcome.reason ELSE Prop(outcome.output, "reason")

\* C4: a handler whose outcome is Blocked, or Success with decision "deny", is
\* the last one evaluated: the result is DENY with its reason and no handler
\* after it in the list is skipped, dispatched or invoked.
C4_FirstDenyWins ==
    \A p \in Procs : \A k \in DOMAIN orch[p].trace :
        LET e == orch[p].trace[k]
        IN  (e.kind = "invoked" /\ IsDeny(e.outcome))
            => /\ k = Len(orch[p].trace)
               /\ orch[p].pc = "done"
               /\ orch[p].result = DenyResult(DenyReason(e.outcome))
               /\ orch[p].i = e.idx
               /\ inv[p].handler = orch[p].handlers[e.idx]

\* two rules match; the first rule's first handler printed an explicit deny
\* and the two handlers after it never ran
C4_Witness ==
    \E p \in Procs :
        /\ orch[p].pc = "done"
        /\ Len(orch[p].handlers) = 3
        /\ Len(orch[p].trace) = 1
        /\ orch[p].trace[1].outcome.v = "success"
        /\ orch[p].result = DenyResult(JStr("no shell"))

\* C5: a handler whose outcome is Error does not end the evaluation: the loop
\* has moved past it, a DENY result never comes from it, and when every
\* dispatched handler returned Error the result is ALLOW.
C5_ErrorNeverDenies ==
    \A p \in Procs :
        /\ \A k \in DOMAIN orch[p].trace :
              LET e == orch[p].trace[k]
              IN  (e.kind = "invoked" /\ e.outcome.v = "error")
                  => /\ orch[p].i > e.idx
                     /\ orch[p].pc \in {"loop", "await", "done", "threw"}
                     /\ (orch[p].pc = "done" /\ orch[p].result.decision = "deny")
                            => k < Len(orch[p].trace)
        /\ (/\ orch[p].pc = "done"
            /\ orch[p].trace # <<>>
            /\ \A k \in DOMAIN orch[p].trace :
                  orch[p].trace[k].kind = "invoked" => orch[p].trace[k].outcome.v = "error")
           => orch[p].result.decision = "allow"

\* both command handlers of a three-handler list returned Error: ALLOW
C5_Witness ==
    \E p \in Procs :
        /\ orch[p].pc = "done"
        /\ Len(orch[p].trace) = 3
        /\ orch[p].trace[1].kind = "invoked"
        /\ orch[p].trace[3].kind = "invoked"
        /\ orch[p].trace[1].outcome.v = "error"
        /\ orch[p].trace[3].outcome.v = "error"
        /\ orch[p].result = AllowResult(Undefined)

SuppliesUpdates(e) ==
    /\ e.kind = "invoked"
    /\ e.outcome.v = "success"
    /\ Prop(e.outcome.output, "updatedInput").t = "object"

\* the merge the result must carry: undefined when nobody supplied updates,
\* otherwise every supplied key with the value of the last supplier
ExpectedUpdates(trace) ==
    LET S == {k \in DOMAIN trace : SuppliesUpdates(trace[k])}
        upd(k) == Prop(trace[k].outcome.output, "updatedInput").f
        keys == UNION {DOMAIN upd(k) : k \in S}
        last(key) == CHOOSE k \in S :
                        /\ key \in DOMAIN upd(k)
                        /\ \A j \in S : key \in DOMAIN upd(j) => j <= k
    IN  IF S = {} THEN Undefined
        ELSE JObject([key \in keys |-> upd(last(key))[key]])

\* C6: an evaluation that ends without a deny returns as updatedInput the
\* key-wise merge, in evaluation order, of the updatedInput of the handlers
\* that returned Success (later values overwrite), or undefined if none
\* supplied one.
C6_UpdatesMergeLaterWins ==
    \A p \in Procs :
        (orch[p].pc = "done" /\ orch[p].result.decision = "allow")
        => orch[p].result.updatedInput = ExpectedUpdates(orch[p].trace)

\* the first handler supplied a and b, a later one overwrote a
C6_Witness ==
    \E p \in Procs :
        /\ orch[p].pc = "done"
        /\ orch[p].result.decision = "allow"
        /\ orch[p].result.updatedInput = JObject([a |-> JStr("1"), b |-> JStr("2")])

\* C7: identities are disabled exactly by crossing the failure threshold; a
\* handler that is disabled when it is invoked, by the orchestrator or by
\* another caller, yields the "disabled" Error; the evaluation goes on past
\* it, and an evaluation whose only handler is disabled ends in ALLOW.
C7_FailureOpen ==
    /\ \A id \in HandlerIds : isDisabled(circuitBreakers, id) <=> tripped[id]
    /\ \A p \in Procs :
        /\ (inv[p].pc # "none" /\ inv[p].startedDisabled)
           => inv[p].pc = "resolved" /\ inv[p].outcome = Error(DisabledMsg)
        /\ \A k \in DOMAIN orch[p].trace :
              LET e == orch[p].trace[k]
              IN  (e.kind = "invoked" /\ e.startedDisabled)
                  => /\ e.outcome = Error(DisabledMsg)
                     /\ orch[p].i > e.idx
                     /\ (orch[p].pc = "done" /\ Len(orch[p].handlers) = 1)
                            => orch[p].result = AllowResult(Undefined)

\* the only matching handler was disabled and the event was allowed
C7_Witness ==
    \E p \in Procs :
        /\ orch[p].pc = "done"
        /\ Len(orch[p].handlers) = 1
        /\ Len(orch[p].trace) = 1
        /\ orch[p].trace[1].startedDisabled
        /\ orch[p].result.decision = "allow"

\* C8: runPreToolUseHooks never throws: every activation ends in ALLOW or
\* DENY whatever a command handler exits with or prints.
C8_NeverThrows ==
    \A p \in Procs : orch[p].pc # "threw"

\* C9: once the timeout has expired on a running child and SIGTERM was sent,
\* the invocation resolves with Error("Hook timed out") and records a failure,
\* whatever exit code or signal the child then ends with.
C9_TimeoutAlwaysTimedOut ==
    \A p \in Procs :
        (/\ inv[p].pc = "resolved"
         /\ inv[p].sigterm
         /\ inv[p].status.kind \in {"exit", "signal"})
        => /\ inv[p].outcome = Error(TimedOutMsg)
           /\ inv[p].recorded = "failure"

\* C10: when the child exits with code 0 and no timeout signal was sent, the
\* callback resolves Success(output) and resets the failure count if stdout is
\* blank (output {}) or parses as JSON; otherwise it resolves the "Invalid
\* JSON output" Error, adds one failure, and the message carries the
\* disablement note exactly when the count reached the threshold.
C10_ExitZeroClassification ==
    [][\A p \in Procs :
          (/\ inv[p].pc = "running"
           /\ inv'[p].pc = "resolved"
           /\ inv[p].status.kind = "exit"
           /\ inv[p].status.code = "0"
           /\ ~inv[p].sigterm)
          => LET so == inv[p].status.stdout
                 id == getHandlerId(inv[p].handler)
                 n == failuresOf(circuitBreakers, id) + 1
             IN  IF trim(so) = ""
                 THEN /\ inv'[p].outcome = Success(EmptyObject)
                      /\ id \in DOMAIN circuitBreakers'
                      /\ circuitBreakers'[id].failures = 0
                 ELSE IF JSONparse(so) # SyntaxError
                 THEN /\ inv'[p].outcome = Success(JSONparse(so))
                      /\ id \in DOMAIN circuitBreakers'
                      /\ circuitBreakers'[id].failures = 0
                 ELSE /\ inv'[p].outcome.v = "error"
                      /\ inv'[p].outcome.message.text = "Invalid JSON output"
                      /\ inv'[p].outcome.message.detail = so
                      /\ circuitBreakers'[id].failures = n
                      /\ inv'[p].outcome.message.note <=> n >= MAX_CONSECUTIVE_FAILURES
      ]_vars

\* an exit 0 with unparsable stdout was the failure that disabled the handler
C10_Witness ==
    \E p \in Procs :
        /\ inv[p].pc = "resolved"
        /\ inv[p].spawned
        /\ inv[p].status.kind = "exit"
        /\ inv[p].status.code = "0"
        /\ ~inv[p].sigterm
        /\ inv[p].outcome.v = "error"
        /\ inv[p].outcome.message.note

\* the execFile callback of caller p runs in this step
CallbackStep(p) ==
    /\ inv[p].pc = "running"
    /\ inv'[p].pc = "resolved"

\* C11: when the child exits with code 2 and no timeout signal was sent, the
\* callback resolves Blocked with the trimmed stderr as reason ("Hook denied"
\* when that is empty) and sets the failure count of the identity to 0 without
\* changing whether it is disabled; a count goes up by at most one per step
\* and an identity becomes disabled only at a count of 3 or more, so after
\* two failures and an exit 2 three further failures are needed.
C11_ExitTwoBlocksAndResets ==
    [][/\ \A p \in Procs :
            (/\ CallbackStep(p)
             /\ inv[p].status.kind = "exit"
             /\ inv[p].status.code = "2"
             /\ ~inv[p].sigterm)
            => LET se == inv[p].status.stderr
                   id == getHandlerId(inv[p].handler)
               IN  /\ inv'[p].outcome.v = "blocked"
                   /\ inv'[p].outcome.reason =
                          JStr(IF trim(se) = "" THEN "Hook denied" ELSE trim(se))
                   /\ id \in DOMAIN circuitBreakers'
                   /\ circuitBreakers'[id].failures = 0
                   /\ circuitBreakers'[id].disabled = isDisabled(circuitBreakers, id)
       /\ \A id \in HandlerIds :
            /\ failuresOf(circuitBreakers', id) <= failuresOf(circuitBreakers, id) + 1
            /\ (~isDisabled(circuitBreakers, id) /\ isDisabled(circuitBreakers', id))
                  => failuresOf(circuitBreakers', id) >= MAX_CONSECUTIVE_FAILURES
      ]_vars

\* a handler two failures into a run exited 2 with blank stderr: it is blocked
\* with the fallback reason, its count is back to 0 and it is not disabled
C11_Witness ==
    \E p \in Procs :
        /\ inv[p].pc = "resolved"
        /\ inv[p].spawned
        /\ inv[p].status.kind = "exit"
        /\ inv[p].status.code = "2"
        /\ ~inv[p].sigterm
        /\ inv[p].priorFailures = 2
        /\ inv[p].outcome = Blocked("Hook denied")
        /\ circuitBreakers[inv[p].handlerId] = [failures |-> 0, disabled |-> FALSE]

\* C12: when the child exits with a code other than 0 and 2 and no timeout
\* signal was sent, the callback resolves the "Hook failed" Error carrying the
\* exit code and the stderr text, adds exactly one failure to the identity,
\* and the message carries the disablement note exactly when the count after
\* this failure is at least 3, which is also when the identity is disabled.
C12_OtherExitIsOneFailure ==
    [][\A p \in Procs :
          (/\ CallbackStep(p)
           /\ inv[p].status.kind = "exit"
           /\ inv[p].status.code \notin {"0", "2"}
           /\ ~inv[p].sigterm)
          => LET id == getHandlerId(inv[p].handler)
                 n == failuresOf(circuitBreakers, id) + 1
             IN  /\ inv'[p].outcome.v = "error"
                 /\ inv'[p].outcome.message.text = "Hook failed"
                 /\ inv'[p].outcome.message.code = inv[p].status.code
                 /\ inv'[p].outcome.message.detail = inv[p].status.stderr
                 /\ id \in DOMAIN circuitBreakers'
                 /\ circuitBreakers'[id].failures = n
                 /\ inv'[p].outcome.message.note <=> n >= MAX_CONSECUTIVE_FAILURES
                 /\ circuitBreakers'[id].disabled
                        <=> (isDisabled(circuitBreakers, id) \/ n >= MAX_CONSECUTIVE_FAILURES)
                 /\ \A other \in HandlerIds \ {id} :
                        failuresOf(circuitBreakers', other) = failuresOf(circuitBreakers, other)
      ]_vars

\* an exit 127 was the third failure in a row: the message carries the note
C12_Witness ==
    \E p \in Procs :
        /\ inv[p].pc = "resolved"
        /\ inv[p].spawned
        /\ inv[p].status.kind = "exit"
        /\ inv[p].status.code = "127"
        /\ ~inv[p].sigterm
        /\ inv[p].priorFailures = 2
        /\ inv[p].outcome = Error(Msg("Hook failed", TRUE, "127", ""))
        /\ circuitBreakers[inv[p].handlerId] = [failures |-> 3, disabled |-> TRUE]

\* C13: an invocation of runCommandHook that reaches the parse step (its
\* identity is not disabled) with a command parseCommand rejects is resolved
\* at once with Blocked carrying the parser's error text; no process is
\* spawned, no timer is armed, and the breaker store is left exactly as it
\* was: no entry is created, no count or disabled flag changes.
C13_ParseRejectIsBlockedNoEffect ==
    [][\A p \in Procs :
          (/\ StartsInvocation(p)
           /\ inv'[p].handler.type = "command"
           /\ ~parseCommand(inv'[p].handler.command).ok
           /\ ~isDisabled(circuitBreakers, getHandlerId(inv'[p].handler)))
          => /\ inv'[p].pc = "resolved"
             /\ inv'[p].outcome = Blocked(parseCommand(inv'[p].handler.command).error)
             /\ inv'[p].resolutions = 1
             /\ ~inv'[p].spawned
             /\ inv'[p].child = "none"
             /\ inv'[p].mainTimeout = "unset" /\ inv'[p].killTimeout = "unset"
             /\ inv'[p].recorded = "none"
             /\ circuitBreakers' = circuitBreakers
      ]_vars

\* a command with a pipe was rejected while its identity had no entry in the
\* store, and it still has none
C13_Witness ==
    \E p \in Procs :
        /\ inv[p].pc = "resolved"
        /\ inv[p].handler = HPipe
        /\ inv[p].outcome = Blocked("Command contains unsupported operators")
        /\ ~inv[p].spawned
        /\ inv[p].handlerId \notin DOMAIN circuitBreakers
        /\ \E other \in DOMAIN circuitBreakers : circuitBreakers[other].failures = 2

\* the characters of a string command
CharsOf(command) == {command.text[i] : i \in 1..Len(command.text)}

\* C14: parseCommand returns an argument vector only if it is non-empty and,
\* for a string command, the lexer produced only literal strings; a string
\* command that contains ; | > or a backtick is rejected with "Command
\* contains unsupported operators"; the empty string and the empty array are
\* rejected.
C14_ParseCommandRejects ==
    api.op = "parseCommand"
    => LET command == api.id[2]
           r == api.ret
       IN  /\ r.ok => /\ Len(r.argv) > 0
                      /\ command.kind = "string"
                            => \A i \in DOMAIN parseShellQuote(command.text) :
                                  parseShellQuote(command.text)[i].lit
           /\ (command.kind = "string" /\ CharsOf(command) \cap {";", "|", ">", Backtick} # {})
                 => /\ ~r.ok
                    /\ r.error = "Command contains unsupported operators"
           /\ (command.kind = "string" /\ command.text = <<>>) => ~r.ok
           /\ (command.kind = "array" /\ command.items = <<>>) => ~r.ok

\* the rule list matchHooks reads for an event (none: the empty list)
RulesOf(config, event) ==
    IF config = Undefined THEN <<>>
    ELSE IF event \in DOMAIN config.events THEN config.events[event] ELSE <<>>

\* how many handlers the matching rules among the first k rules hold
RECURSIVE HooksBefore(_, _, _)
HooksBefore(rules, subject, k) ==
    IF k = 0 THEN 0
    ELSE HooksBefore(rules, subject, k - 1)
         + (IF matchesPattern(rules[k].matcher, subject) THEN Len(rules[k].hooks) ELSE 0)

\* C15: matchHooks(config, event, subject) returns the handler lists of the
\* rules under that event whose matcher matches subject, one after the other
\* in rule order: the result is as long as those lists together, the j-th
\* handler of a matching rule stands at position j after all handlers of the
\* matching rules before it (so order is kept, duplicates stay, nothing from
\* a non-matching rule or another event appears), and the configuration is
\* the one that was passed.
C15_MatchHooksConcatenates ==
    api.op = "matchHooks"
    => LET config == api.id[2]
           subject == api.id[4]
           rules == RulesOf(config, api.id[3])
           ret == api.ret
       IN  /\ Len(ret) = HooksBefore(rules, subject, Len(rules))
           /\ \A k \in DOMAIN rules :
                 matchesPattern(rules[k].matcher, subject)
                 => \A j \in DOMAIN rules[k].hooks :
                       ret[HooksBefore(rules, subject, k - 1) + j] = rules[k].hooks[j]
           /\ settings = config

\* two rules match Bash; the result is the first rule's two handlers followed
\* by the second rule's two equal handlers
C15_Witness ==
    /\ api.op = "matchHooks"
    /\ api.id[3] = "PreToolUse"
    /\ api.id[4] = Bash
    /\ settings # Undefined
    /\ "PostToolUse" \in DOMAIN settings.events
    /\ settings.events["PreToolUse"] =
          << Rule(<<"B", "*">>, <<HLint, HCheck>>), Rule(Bash, <<HCheck, HCheck>>) >>
    /\ api.ret = <<HLint, HCheck, HCheck, HCheck>>

\* runPreToolUseHooks is called by caller p in this step
StartsEvaluation(p) ==
    /\ orch[p].pc \in {"idle", "done", "threw"}
    /\ orch'[p].pc \in {"loop", "done"}
    /\ orch'[p].trace = <<>>
    /\ <<orch'[p], inv'[p]>> # <<orch[p], inv[p]>>

\* no rule of the PreToolUse list of the settings matches the tool name
\* (there is no configuration, no such list, or it holds no matching rule)
NothingMatches(config, tool) ==
    \A k \in DOMAIN RulesOf(config, "PreToolUse") :
        ~matchesPattern(RulesOf(config, "PreToolUse")[k].matcher, tool)

CommandText(command) ==
    IF command.kind = "array" THEN Join(command.items, <<" ">>) ELSE command.text

FirstChars(text, n) == SubSeq(text, 1, Min(n, Len(text)))

\* two command or prompt descriptors the breaker is to treat as one handler
SameIdentity(h1, h2) ==
    /\ h1.type = h2.type
    /\ h1.type = "command" => CommandText(h1.command) = CommandText(h2.command)
    /\ h1.type = "prompt" => FirstChars(h1.prompt, 50) = FirstChars(h2.prompt, 50)

\* over the handlers explored, the derived key tells descriptors apart exactly
\* as SameIdentity does
KeysFollowIdentity ==
    \A h1, h2 \in {h \in AllHandlers : h.type \in {"command", "prompt"}} :
        SameIdentity(h1, h2) <=> getHandlerId(h1) = getHandlerId(h2)

\* the store's entry for an identity is created or modified in this step
EntryWritten(id) ==
    /\ id \in DOMAIN circuitBreakers'
    /\ id \in DOMAIN circuitBreakers => circuitBreakers'[id] # circuitBreakers[id]

\* C17: the breaker store is keyed by the derived identity: two command or
\* prompt descriptors have the same key exactly when they have the same
\* command text (string, or array joined by spaces) or the same first 50
\* prompt characters, whatever their timeout or model; a step writes the
\* entry of an identity only through an invocation of a descriptor with that
\* identity, so descriptors of one identity share its count and descriptors
\* of other identities leave it alone.
C17_KeyedByDerivedIdentity ==
    [][/\ KeysFollowIdentity
       /\ \A id \in HandlerIds :
            EntryWritten(id)
            => \E p \in Procs :
                  /\ inv'[p].pc = "resolved"
                  /\ inv'[p].recorded # "none"
                  /\ inv'[p].handler.type \in {"command", "prompt"}
                  /\ getHandlerId(inv'[p].handler) = id
                  /\ inv'[p].handlerId = id
      ]_vars

\* the string command with a pipe never runs and so never fails itself, yet
\* it is refused as disabled: the one-item array with the same text failed
\* three times under the shared key
C17_Witness ==
    \E p \in Procs :
        /\ inv[p].pc = "resolved"
        /\ inv[p].handler = HPipe
        /\ inv[p].startedDisabled
        /\ inv[p].outcome = Error(DisabledMsg)
        /\ getHandlerId(HPipeArr) \in DOMAIN circuitBreakers
        /\ circuitBreakers[getHandlerId(HPipeArr)] = [failures |-> 3, disabled |-> TRUE]
        /\ \E id \in DOMAIN circuitBreakers : ~circuitBreakers[id].disabled

\* C18: every invocation of runClaudeHook (and so of runCommandHook or
\* runPromptHook) settles by resolving, once, with one outcome that is
\* Success, Blocked or Error: it is never rejected, while it is pending it
\* has not resolved and has no outcome, and a resolved invocation is never
\* resolved again with another outcome, whatever order the timers, the exit
\* and the callback come in.
C18_ResolvesExactlyOnce ==
    [][\A p \in Procs :
          /\ inv'[p].pc \in {"none", "running", "racing", "resolved"}
          /\ inv'[p].pc = "resolved"
                => /\ inv'[p].resolutions = 1
                   /\ inv'[p].outcome.v \in {"success", "blocked", "error"}
          /\ inv'[p].pc \in {"running", "racing"}
                => /\ inv'[p].resolutions = 0
                   /\ inv'[p].outcome = Undefined
          /\ (inv[p].pc = "resolved" /\ ~StartsInvocation(p) /\ inv'[p].pc # "none")
                => inv'[p] = inv[p]
      ]_vars

\* C19: matchesPattern(pattern, identifier) returns true when pattern is "*",
\* whatever the identifier, and when pattern and identifier are the same
\* string, glob metacharacters or not; in both cases picomatch is not called.
C19_FastPathsMatch ==
    api.op = "matchesPattern"
    => LET pattern == api.id[2]
           identifier == api.id[3]
       IN  (pattern = <<"*">> \/ pattern = identifier)
           => api.ret.ret /\ ~api.ret.consulted

\* "*" matched an identifier that begins with a dot, which picomatch would
\* not have matched
C19_Witness ==
    /\ api.op = "matchesPattern"
    /\ api.id[2] = <<"*">>
    /\ api.id[3] = <<".", "a">>
    /\ api.ret = [ret |-> TRUE, consulted |-> FALSE]
    /\ ~picomatch(api.id[2], api.id[3])

\* the invocation record without the bookkeeping of Invoke
Bare(i) ==
    [i EXCEPT !.startedDisabled = FALSE, !.priorFailures = 0, !.llmReply = Undefined,
              !.input = Undefined]

\* nothing was run for the invocation that caller p began in this step
NothingExecuted(p) ==
    /\ inv'[p].pc = "resolved"
    /\ inv'[p].resolutions = 1
    /\ ~inv'[p].spawned
    /\ ~inv'[p].llmCalled
    /\ inv'[p].child = "none"
    /\ inv'[p].mainTimeout = "unset" /\ inv'[p].killTimeout = "unset"
    /\ circuitBreakers' = circuitBreakers

\* C20: runClaudeHook does what the handler's kind says and nothing else: a
\* command handler gets exactly what runCommandHook does, a prompt handler
\* what runPromptHook does; an agent handler gets Error("Agent handlers not
\* yet implemented") and any other kind an Error naming the kind, and in
\* these two cases no process, timer or LLM call is started and the breaker
\* store is left as it was.
C20_RoutesByKind ==
    [][\A p \in Procs :
          StartsInvocation(p)
          => LET h == inv'[p].handler
                 owner == inv'[p].owner
             IN  CASE h.type = "command" ->
                        /\ Bare(inv'[p]) = runCommandHookStart(circuitBreakers, h, owner).inv
                        /\ circuitBreakers' = runCommandHookStart(circuitBreakers, h, owner).cb
                   [] h.type = "prompt" ->
                        /\ Bare(inv'[p]) = runPromptHook(circuitBreakers, h, owner).inv
                        /\ circuitBreakers' = runPromptHook(circuitBreakers, h, owner).cb
                   [] h.type = "agent" ->
                        /\ inv'[p].outcome =
                              Error(Msg("Agent handlers not yet implemented", FALSE, "", ""))
                        /\ NothingExecuted(p)
                   [] OTHER ->
                        /\ inv'[p].outcome.v = "error"
                        /\ inv'[p].outcome.message.text = "Unknown handler type"
                        /\ inv'[p].outcome.message.detail = h.type
                        /\ NothingExecuted(p)
      ]_vars

\* a handler of kind "mcp" was refused with an Error naming that kind while
\* the store, which holds counts of other handlers, has no entry for it
C20_Witness ==
    \E p \in Procs :
        /\ inv[p].pc = "resolved"
        /\ inv[p].handler = HUnknown
        /\ inv[p].outcome = Error(Msg("Unknown handler type", FALSE, "", "mcp"))
        /\ getHandlerId(HUnknown) \notin DOMAIN circuitBreakers
        /\ getHandlerId(HAgent) \notin DOMAIN circuitBreakers
        /\ \E id \in DOMAIN circuitBreakers : circuitBreakers[id].failures = 2

\* C21: within one call of runPreToolUseHooks the handlers are taken in the
\* order matchHooks returned them, one at a time: a handler is started only
\* while no earlier invocation of the call is pending or has a live process,
\* it is the handler at the loop position, every earlier position has been
\* dealt with, and while an invocation is pending the loop waits for it.
C21_OneHandlerAtATime ==
    [][\A p \in Procs :
          /\ (orch[p].pc = "loop" /\ inv'[p] # inv[p])
                => /\ inv[p].pc \in {"none", "resolved"}
                   /\ inv[p].child \in {"none", "closed"}
                   /\ inv'[p].owner = "orch"
                   /\ inv'[p].handler = orch[p].handlers[orch[p].i]
                   /\ Len(orch[p].trace) = orch[p].i - 1
                   /\ orch'[p].pc = "await"
          /\ (inv'[p].pc = "running" /\ inv'[p].owner = "orch")
                => /\ orch'[p].pc = "await"
                   /\ inv'[p].handler = orch'[p].handlers[orch'[p].i]
          /\ \A k \in DOMAIN orch'[p].trace : orch'[p].trace[k].idx = k
      ]_vars

\* three handlers matched: the first ran and resolved, the second was
\* skipped, and the third has a live process while the loop waits for it
C21_Witness ==
    \E p \in Procs :
        /\ orch[p].pc = "await"
        /\ Len(orch[p].handlers) = 3
        /\ orch[p].i = 3
        /\ Len(orch[p].trace) = 2
        /\ orch[p].trace[1].kind = "invoked"
        /\ inv[p].pc = "running"
        /\ inv[p].child = "alive"
        /\ inv[p].handler = orch[p].handlers[3]

\* C22: in runCommandHook the kill timer is armed only in the step in which
\* the primary timer expires, with a delay of 5000 ms; SIGKILL is sent only
\* by the expiry of the kill timer and only to a process that is still
\* running after SIGTERM; when the kill timer expires on a running process
\* SIGKILL is sent; and when the process ends before that and the callback
\* runs, the kill timer is cleared and no SIGKILL was or will be sent.
C22_KillTimerOnlyAfterTimeout ==
    [][\A p \in Procs :
          /\ (inv'[p].killTimeout = "pending" /\ inv[p].killTimeout # "pending")
                => /\ inv[p].pc = "running"
                   /\ inv[p].mainTimeout = "pending"
                   /\ inv'[p].mainTimeout = "fired"
                   /\ inv'[p].killDelayMs = 5000
          /\ inv'[p].killTimeout # "unset" => inv'[p].mainTimeout = "fired"
          /\ (inv'[p].sigkill /\ ~inv[p].sigkill)
                => /\ inv[p].killTimeout = "pending"
                   /\ inv'[p].killTimeout = "fired"
                   /\ inv[p].child = "alive"
                   /\ inv[p].sigterm
          /\ (inv[p].killTimeout = "pending" /\ inv'[p].killTimeout = "fired"
               /\ inv[p].child = "alive")
                => inv'[p].sigkill /\ inv'[p].killed
          /\ (inv[p].killTimeout = "pending" /\ inv[p].child = "exited" /\ CallbackStep(p))
                => inv'[p].killTimeout = "cleared" /\ ~inv'[p].sigkill
          /\ inv'[p].killTimeout = "cleared" => ~inv'[p].sigkill
      ]_vars

\* the process outlived SIGTERM, was sent SIGKILL by the kill timer, ended by
\* that signal and the invocation resolved
C22_Witness ==
    \E p \in Procs :
        /\ inv[p].pc = "resolved"
        /\ inv[p].spawned
        /\ inv[p].sigterm
        /\ inv[p].sigkill
        /\ inv[p].killTimeout = "fired"
        /\ inv[p].status.kind = "signal"
        /\ inv[p].status.signal = "SIGKILL"

\* a signal goes out to the process of caller p in this step
SendsSignal(p) ==
    \/ inv'[p].sigterm /\ ~inv[p].sigterm
    \/ inv'[p].sigkill /\ ~inv[p].sigkill

PendingTimers(i) ==
    Cardinality({t \in {"main", "kill"} :
                    IF t = "main" THEN i.mainTimeout = "pending"
                                  ELSE i.killTimeout = "pending"})

\* C23: once an invocation of a command handler has resolved, neither
\* mainTimeout nor killTimeout is pending; a signal goes only to a process
\* that is still running, never after its exit or after the callback ran; a
\* process is spawned only by the step that starts the invocation, so there is
\* one per invocation; and at most two timers are pending at any time.
C23_NoTimerOutlivesInvocation ==
    [][\A p \in Procs :
          /\ (inv'[p].pc = "resolved" /\ inv'[p].handler.type = "command")
                => /\ inv'[p].mainTimeout # "pending"
                   /\ inv'[p].killTimeout # "pending"
                   /\ inv'[p].child \in {"none", "closed"}
          /\ SendsSignal(p) => inv[p].pc = "running" /\ inv[p].child = "alive"
          /\ (inv'[p].child = "alive" /\ inv[p].child # "alive")
                => StartsInvocation(p) /\ inv[p].child \in {"none", "closed"}
          /\ PendingTimers(inv'[p]) <= 2
      ]_vars

\* the process ended after SIGTERM, before the kill timer expired, and the
\* callback cleared the kill timer
C23_Witness ==
    \E p \in Procs :
        /\ inv[p].pc = "resolved"
        /\ inv[p].spawned
        /\ inv[p].sigterm
        /\ inv[p].mainTimeout = "fired"
        /\ inv[p].killTimeout = "cleared"
        /\ inv[p].child = "closed"

\* the loop of caller p stands at a handler that is not a command handler
AtNonCommand(p) ==
    /\ orch[p].pc = "loop"
    /\ orch[p].i <= Len(orch[p].handlers)
    /\ orch[p].handlers[orch[p].i].type # "command"

\* C24: when the loop of runPreToolUseHooks stands at a prompt or agent
\* handler, its next step only moves on to the next handler: no invocation is
\* started (no process, no LLM call), the breaker store, the decision and the
\* accumulated updates stay as they were; every invocation the orchestrator
\* owns is of a command handler.
C24_NonCommandSkipped ==
    [][\A p \in Procs :
          /\ AtNonCommand(p)
                => /\ inv'[p] = inv[p]
                   /\ orch'[p] # orch[p]
                         => /\ orch'[p].pc = "loop"
                            /\ orch'[p].i = orch[p].i + 1
                            /\ orch'[p].handlers = orch[p].handlers
                            /\ orch'[p].result = orch[p].result
                            /\ orch'[p].accumulatedUpdates = orch[p].accumulatedUpdates
                            /\ circuitBreakers' = circuitBreakers
                            /\ Len(orch'[p].trace) = Len(orch[p].trace) + 1
                            /\ orch'[p].trace[orch[p].i].kind = "skipped"
          /\ (inv'[p].owner = "orch" /\ inv'[p].pc # "none")
                => inv'[p].handler.type = "command" /\ ~inv'[p].llmCalled
          /\ \A k \in DOMAIN orch'[p].trace :
                orch'[p].handlers[k].type # "command" => orch'[p].trace[k].kind = "skipped"
      ]_vars

\* an agent handler was skipped and the command handler after it was invoked
C24_Witness ==
    \E p \in Procs :
        /\ Len(orch[p].trace) >= 2
        /\ orch[p].handlers[1].type = "agent"
        /\ orch[p].trace[1].kind = "skipped"
        /\ orch[p].trace[2].kind = "invoked"
        /\ inv[p].handler = orch[p].handlers[2]

\* a resolved invocation of a prompt handler that was not disabled at its start
PromptRan(p) ==
    /\ inv[p].pc = "resolved"
    /\ inv[p].handler.type = "prompt"
    /\ ~inv[p].startedDisabled

\* C26: an invocation of runPromptHook on a handler that is not disabled, to
\* which the provider answers a text that parses as JSON once a code fence
\* around it is removed, resolves with Success carrying the parsed value and
\* records a success; when the text does not parse it resolves with Error and
\* records a failure.
C26_PromptReplyDecidesOutcome ==
    \A p \in Procs :
        PromptRan(p) =>
            LET output == JSONparse(stripCodeFence(inv[p].llmReply))
            IN  IF output # SyntaxError
                THEN inv[p].outcome = Success(output) /\ inv[p].recorded = "success"
                ELSE inv[p].outcome.v = "error" /\ inv[p].recorded = "failure"

RecordedBy(p, kind, id) ==
    /\ CallbackStep(p)
    /\ inv[p].handlerId = id
    /\ inv'[p].recorded = kind

\* C27: with two orchestrator instances on one store, a recordFailure adds
\* exactly one to the count the store held just before it (and disables at 3
\* or more), a recordSuccess puts the count to 0, a reset removes the entry,
\* and no other step changes the count: whatever the interleaving of the two
\* callers, no recorder operation is lost, and the count follows the run of
\* failures applied since the last success or reset.
C27_NoRecorderOperationLost ==
    [][\A id \in SharedIds :
          LET n == failuresOf(circuitBreakers, id)
              m == failuresOf(circuitBreakers', id)
          IN  /\ \A p \in Procs :
                    RecordedBy(p, "failure", id)
                        => /\ m = n + 1
                           /\ isDisabled(circuitBreakers', id)
                                 <=> (isDisabled(circuitBreakers, id)
                                      \/ n + 1 >= MAX_CONSECUTIVE_FAILURES)
              /\ \A p \in Procs :
                    RecordedBy(p, "success", id)
                        => m = 0 /\ (isDisabled(circuitBreakers', id)
                                        <=> isDisabled(circuitBreakers, id))
              /\ m # n => IF id \in DOMAIN circuitBreakers'
                          THEN \E p \in Procs : \E kind \in {"failure", "success"} :
                                    RecordedBy(p, kind, id)
                          ELSE m = 0
              /\ Min(m, MAX_CONSECUTIVE_FAILURES) = streak'[id]
      ]_vars

\* caller p began its invocation while the store held no failure, the other
\* caller has recorded a failure since, and p's process has ended with exit
\* code 1: p's callback is about to record the second failure
C27_Witness ==
    \E p \in Procs : \E q \in Procs \ {p} :
        /\ inv[p].pc = "running"
        /\ inv[p].child = "exited"
        /\ inv[p].status.code = "1"
        /\ inv[p].priorFailures = 0
        /\ inv[q].pc = "resolved"
        /\ inv[q].recorded = "failure"
        /\ inv[q].handlerId = inv[p].handlerId
        /\ failuresOf(circuitBreakers, inv[p].handlerId) = 1

\* C28: a callback that runs when its identity is already disabled (its
\* invocation passed the disabled check earlier) still resolves with the
\* outcome of its own process and applies its own recorder operation (exit 0
\* with JSON gives Success, exit 1 gives Error; a success puts the count to 0
\* and a failure adds one to it, so the count may be 0 or above 3);
\* the identity stays disabled; a step of one caller leaves the invocation of
\* the other as it was.
C28_OverlappingInvocationsComplete ==
    [][/\ \A p \in Procs :
            (CallbackStep(p) /\ isDisabled(circuitBreakers, inv[p].handlerId))
               => LET id == inv[p].handlerId
                      n == failuresOf(circuitBreakers, id)
                      m == failuresOf(circuitBreakers', id)
                      st == inv[p].status
                  IN  /\ ~inv[p].startedDisabled
                      /\ inv'[p].outcome # Error(DisabledMsg)
                      /\ isDisabled(circuitBreakers', id)
                      /\ inv'[p].recorded \in {"success", "failure"}
                      /\ inv'[p].recorded = "success" => m = 0
                      /\ inv'[p].recorded = "failure" => m = n + 1
                      /\ (st.kind = "exit" /\ st.code = "0" /\ ~inv[p].killed)
                            => /\ inv'[p].outcome = Success(JSONparse(st.stdout))
                               /\ inv'[p].recorded = "success"
                      /\ (st.kind = "exit" /\ st.code = "1" /\ ~inv[p].killed)
                            => /\ inv'[p].outcome.v = "error"
                               /\ inv'[p].recorded = "failure"
       /\ \A p \in Procs : \A q \in Procs \ {p} :
            inv'[q] # inv[q] => inv'[p] = inv[p]
      ]_vars

\* the identity is disabled with count 0: after the third failure disabled
\* it, the callback of an invocation that had started earlier recorded a
\* success
C28_Witness ==
    \E p \in Procs : \E q \in Procs \ {p} :
        /\ inv[p].pc = "resolved"
        /\ inv[p].spawned
        /\ ~inv[p].startedDisabled
        /\ inv[p].recorded = "success"
        /\ inv[p].priorFailures >= MAX_CONSECUTIVE_FAILURES
        /\ inv[q].pc = "resolved"
        /\ inv[q].recorded = "failure"
        /\ inv[q].handlerId = inv[p].handlerId
        /\ circuitBreakers[inv[p].handlerId] = [failures |-> 0, disabled |-> TRUE]

HasRejectedCommand(p) ==
    \E k \in DOMAIN orch[p].handlers :
        /\ orch[p].handlers[k].type = "command"
        /\ ~parseCommand(orch[p].handlers[k].command).ok

\* C30: an evaluation of runPreToolUseHooks whose matching handlers include a
\* command handler with a command the parser rejects returns DENY, every
\* time; the identity of such a handler is never disabled.
C30_RejectedCommandAlwaysDenies ==
    \A p \in Procs :
        (orch[p].pc = "done" /\ HasRejectedCommand(p))
            => /\ orch[p].result.decision = "deny"
               /\ \A k \in DOMAIN orch[p].handlers :
                     (/\ orch[p].handlers[k].type = "command"
                      /\ ~parseCommand(orch[p].handlers[k].command).ok)
                        => ~isDisabled(circuitBreakers, getHandlerId(orch[p].handlers[k]))

\* C32: a resolved invocation of runCommandHook that spawned a process has
\* the outcome Success only when the process ended by itself with exit code
\* 0; when the process was ended by a signal the executor did not send, or
\* could not be spawned, the outcome is Error and a failure was recorded.
C32_SuccessOnlyOnExitZero ==
    \A p \in Procs :
        (inv[p].pc = "resolved" /\ inv[p].spawned)
            => /\ inv[p].outcome.v = "success"
                    => /\ inv[p].status.kind = "exit"
                       /\ inv[p].status.code = "0"
                       /\ inv[p].recorded = "success"
               /\ ((inv[p].status.kind = "signal" /\ ~inv[p].sigterm /\ ~inv[p].sigkill)
                   \/ inv[p].status.kind = "spawnError")
                    => /\ inv[p].outcome.v = "error"
                       /\ inv[p].recorded = "failure"

\* C33: a resolved invocation of runCommandHook has the outcome Error("Hook
\* timed out") only when mainTimeout expired while the process was still
\* running, so that SIGTERM was sent to it; an invocation whose process was
\* stopped for producing more output than maxBuffer allows resolves with an
\* Error whose message is not the timeout message.
C33_TimedOutOnlyAfterTimeout ==
    \A p \in Procs :
        (inv[p].pc = "resolved" /\ inv[p].spawned)
            => /\ inv[p].outcome = Error(TimedOutMsg)
                    => /\ inv[p].mainTimeout = "fired"
                       /\ inv[p].sigterm
                       /\ inv[p].killed
               /\ inv[p].status.kind = "maxBuffer"
                    => /\ inv[p].outcome.v = "error"
                       /\ inv[p].outcome.message.text = "Hook failed"
                       /\ inv[p].outcome.message.code = "ERR_CHILD_PROCESS_STDIO_MAXBUFFER"
                       /\ inv[p].recorded = "failure"

\* the process overran maxBuffer before the timeout: the timer was cleared
\* and the Error names the maxBuffer code
C33_Witness ==
    \E p \in Procs :
        /\ inv[p].pc = "resolved"
        /\ inv[p].spawned
        /\ inv[p].status.kind = "maxBuffer"
        /\ inv[p].mainTimeout = "cleared"
        /\ ~inv[p].sigterm
        /\ inv[p].outcome.v = "error"
        /\ inv[p].outcome.message.text = "Hook failed"

\* C31: runCommandHook writes the input to the stdin of the process once and
\* then ends the stream; an EPIPE or ERR_STREAM_DESTROYED error of the stream
\* is not reported and leaves the outcome to the exit status of the process
\* (exit 0 with JSON is still Success, exit 2 still Blocked), and an
\* invocation whose stream emitted any other error resolves with an Error.
C31_StdinErrorsPropagateUnlessEpipe ==
    \A p \in Procs :
        /\ (inv[p].pc = "running" /\ inv[p].child = "alive")
              => inv[p].stdin = <<"write", "end">>
        /\ (inv[p].pc = "resolved" /\ inv[p].spawned)
              => /\ inv[p].stdinError \in {"EPIPE", "ERR_STREAM_DESTROYED"}
                      => /\ ~inv[p].stdinLogged
                         /\ (inv[p].status.kind = "exit" /\ inv[p].status.code = "0"
                              /\ inv[p].status.stdout = OutAllowA)
                               => inv[p].outcome = Success(JSONparse(OutAllowA))
                         /\ (inv[p].status.kind = "exit" /\ inv[p].status.code = "2"
                              /\ ~inv[p].killed)
                               => inv[p].outcome.v = "blocked"
                 /\ inv[p].stdinError \notin {"none", "EPIPE", "ERR_STREAM_DESTROYED"}
                      => inv[p].outcome.v = "error"

\* C34: every invocation the orchestrator starts is given the hookInput built
\* at the start of the evaluation from the caller's tool_name and tool_input;
\* while the evaluation runs neither hookInput nor the caller's input changes,
\* whatever updates have been accumulated, and an invocation keeps the input
\* it was given.
C34_SameInputForEveryHandler ==
    [][\A p \in Procs :
          /\ (StartsInvocation(p) /\ inv'[p].owner = "orch")
                => /\ inv'[p].input = orch[p].hookInput
                   /\ inv'[p].input = HookInput(PreToolUseHookInput(orch[p].tool))
                   /\ inv'[p].input.tool_input = ToolInput
          /\ orch[p].pc \in {"loop", "await"}
                => /\ orch'[p].hookInput = orch[p].hookInput
                   /\ orch'[p].input = orch[p].input
                   /\ orch'[p].input = PreToolUseHookInput(orch[p].tool)
          /\ inv[p].pc = "running" => inv'[p].input = inv[p].input
      ]_vars

\* the first handler returned updates that differ from the tool_input, and the
\* third handler is running on the unchanged input
C34_Witness ==
    \E p \in Procs :
        /\ orch[p].pc = "await"
        /\ orch[p].i = 3
        /\ orch[p].accumulatedUpdates = JObject([a |-> JStr("1")])
        /\ inv[p].pc = "running"
        /\ inv[p].input.tool_input = ToolInput
        /\ inv[p].input.tool_name = Bash

\* the outcome is a Success whose output is a value with a decision other
\* than "deny" or with none
PassesWithoutDeny(outcome) ==
    /\ outcome.v = "success"
    /\ outcome.output # Null
    /\ Prop(outcome.output, "decision") # JStr("deny")

\* C35: a result returned by runPreToolUseHooks has decision "allow" or
\* "deny", never "ask"; it is "deny" exactly when an invoked handler returned
\* Blocked or Success with decision "deny"; and a Success with decision "ask",
\* or with no decision, only lets the loop go on to the next handler, with
\* its updatedInput merged as for "allow".
C35_NeverAsk ==
    [][\A p \in Procs :
          /\ orch'[p].pc = "done"
                => /\ orch'[p].result.decision \in {"allow", "deny"}
                   /\ orch'[p].result.decision = "deny"
                         <=> \E k \in DOMAIN orch'[p].trace :
                                /\ orch'[p].trace[k].kind = "invoked"
                                /\ IsDeny(orch'[p].trace[k].outcome)
          /\ (orch[p].pc = "await" /\ orch'[p] # orch[p] /\ PassesWithoutDeny(inv[p].outcome))
                => LET upd == Prop(inv[p].outcome.output, "updatedInput")
                   IN  /\ orch'[p].pc = "loop"
                       /\ orch'[p].i = orch[p].i + 1
                       /\ orch'[p].result = Undefined
                       /\ orch'[p].accumulatedUpdates =
                              IF Truthy(upd) THEN Spread(orch[p].accumulatedUpdates, upd)
                              ELSE orch[p].accumulatedUpdates
      ]_vars

\* the only matching handler answered "ask": the result is allow, with the
\* updates of that answer
C35_Witness ==
    \E p \in Procs :
        /\ orch[p].pc = "done"
        /\ Len(orch[p].trace) = 1
        /\ orch[p].trace[1].kind = "invoked"
        /\ orch[p].trace[1].outcome = Success(JSONparse(OutAskAB))
        /\ orch[p].result = AllowResult(JObject([a |-> JStr("2"), b |-> JStr("2")]))

====
